---- MODULE Spec2Model ----
(***************************************************************************)
(* A model of the astrodynamics core of across_api: the ephemeris time     *)
(* grid, the constraint predicates' slicing of the ephemeris, the          *)
(* visibility window synthesizer and the SAA window extraction.            *)
(*                                                                         *)
(* Time is counted in whole seconds.  Python sequences are indexed from 0; *)
(* the TLA+ sequences that stand for them are indexed from 1, and every    *)
(* access goes through PyAt / PyInRange, which keep Python's rules         *)
(* (negative indices wrap once, anything else out of range is an           *)
(* IndexError).                                                            *)
(***************************************************************************)
EXTENDS Integers, Sequences, FiniteSets, TLC

VARIABLES
    ephem,   \* the ephemeris: [begin, stepsize, truth], truth[k+1] = the set of
             \* constraints that are true at ephemeris index k
    vis,     \* the visibility object (VisibilityBase)
    saa,     \* the SAA object (SAABase)
    pointing,\* the pointing object (PointingBase)
    probe,   \* the last evaluation of a constraint predicate or of a decoder
    fov,     \* the last call of a field-of-view method (FOVBase)
    cache,   \* the ephemeris cache of a mission and the requests using it
    too      \* the TOO table and the request being posted (BurstCubeTOO)

vars == <<ephem, vis, saa, pointing, probe, fov, cache, too>>

\* ------------------------------------------------------------------ bounds

\* Number of instants of the ephemeris in the visibility model.
EphLen == 4

\* The ephemeris begins at EphOffset * StepSize seconds (a day boundary).
EphOffset == 1

\* ---------------------------------------------------------------- constants

\* VisibilityBase.__init__: self.stepsize = 60 * u.s
StepSize == 60

\* Query times are given at a third of a step, so that rounding is exercised
\* and no query time lies exactly half way between two grid instants.
QueryRes == StepSize \div 3

\* The value of a cached property that is not computed yet, and of a failed lookup.
NoVal == 0 - 1

\* ------------------------------------------------------------ Python lists

PyInRange(arr, i) == -Len(arr) <= i /\ i < Len(arr)

PyAt(arr, i) == IF i >= 0 THEN arr[i + 1] ELSE arr[Len(arr) + i + 1]

\* arr[a:b] for 0 <= a, b <= len(arr)
PySlice(arr, a, b) == IF b <= a THEN << >> ELSE SubSeq(arr, a + 1, b)

\* ---------------------------------------------------------------- ephemeris

\* base/common.py is not part of the sources: rounding to the nearest multiple
\* of the step, as its callers' comments describe it.
round_time(t, step) == ((2 * t + step) \div (2 * step)) * step

EphCount(e) == Len(e.truth)

\* ephem.timestamp[k]
EphTimestamp(e, k) == e.begin + k * e.stepsize

EphEnd(e) == EphTimestamp(e, EphCount(e) - 1)

EphTimestamps(e) == [k \in 1..EphCount(e) |-> EphTimestamp(e, k - 1)]

\* EphemBase.ephindex: the index of the grid instant covering t; the lookup of
\* a time outside [begin, end] is an error (NoVal).
ephindex(e, t) ==
    LET index == (t - e.begin) \div e.stepsize
    IN  IF t < e.begin \/ t > EphEnd(e) THEN NoVal ELSE index

\* The per-constraint boolean arrays of the whole ephemeris.
ConsArray(e, c) == [k \in 1..EphCount(e) |-> c \in e.truth[k]]

\* The constraints, named as VisibilityBase.constraint names them.
Sun == "Sun"
Moon == "Moon"
Pole == "Pole"
Earth == "Earth"
SAA == "SAA"
Ram == "Ram"

Constraints == {Sun, Moon, Pole, Earth, SAA, Ram}

\* ------------------------------------------------- constraint predicates

\* A Time argument: a scalar instant or an array of instants.
ScalarTime(t) == [isscalar |-> TRUE, ts |-> <<t>>]
ArrayTime(ts) == [isscalar |-> FALSE, ts |-> ts]

Raised(err) == [err |-> err, start |-> NoVal, stop |-> NoVal]

\* slice(first, last + 1) of two ephindex results; a failed lookup raises.
SliceOf(first, last) ==
    IF first = NoVal \/ last = NoVal THEN Raised("AssertionError")
    ELSE [err |-> "none", start |-> first, stop |-> last + 1]

Min(a, b) == IF a <= b THEN a ELSE b
Max(a, b) == IF a >= b THEN a ELSE b

\* getslice with its scalar branch off by one (index + 1).
getslice_shifted(time, e) ==
    IF time.isscalar
    THEN IF ~(time.ts[1] >= e.begin /\ time.ts[1] <= EphEnd(e))
         THEN Raised("AssertionError")
         ELSE [ err |-> "none", start |-> ephindex(e, time.ts[1]) + 1,
                stop |-> ephindex(e, time.ts[1]) + 2 ]
    ELSE IF time.ts = << >> THEN Raised("IndexError")
    ELSE IF ~(time.ts[1] >= e.begin /\ time.ts[Len(time.ts)] <= EphEnd(e))
         THEN Raised("AssertionError")
         ELSE SliceOf(ephindex(e, time.ts[1]), ephindex(e, time.ts[Len(time.ts)]))

\* getslice clamping the request to the ephemeris instead of checking it.
getslice_clamped(time, e) ==
    IF time.ts = << >> THEN Raised("IndexError")
    ELSE SliceOf(ephindex(e, Min(Max(time.ts[1], e.begin), EphEnd(e))),
                 ephindex(e, Max(Min(time.ts[Len(time.ts)], EphEnd(e)), e.begin)))

\* getslice(time, ephem): the slice of the ephemeris the time covers, or the
\* exception it raises.
getslice(time, e) ==
    IF time.isscalar
    THEN IF ~(time.ts[1] >= e.begin /\ time.ts[1] <= EphEnd(e))
         THEN Raised("AssertionError")
         ELSE SliceOf(ephindex(e, time.ts[1]), ephindex(e, time.ts[1]))
    ELSE IF time.ts = << >> THEN Raised("IndexError")
    ELSE IF ~(time.ts[1] >= e.begin /\ time.ts[Len(time.ts)] <= EphEnd(e))
         THEN Raised("AssertionError")
         ELSE SliceOf(ephindex(e, time.ts[1]), ephindex(e, time.ts[Len(time.ts)]))

\* ephem.<array>[i] for a slice i: Python clips a slice to the array.
ClipSlice(arr, sl) ==
    LET a == IF sl.start > Len(arr) THEN Len(arr) ELSE sl.start
        b == IF sl.stop > Len(arr) THEN Len(arr) ELSE sl.stop
    IN  PySlice(arr, a, b)

\* The __call__ of a constraint class (SAAPolygonConstraint,
\* EarthLimbConstraint, SunConstraint, MoonConstraint, RamConstraint,
\* PoleConstraint) for a scalar coordinate: the geometric test of constraint
\* c at every index of the slice, returned as its element 0 for a scalar
\* time and as the array otherwise.
Predicate(c, time, e) ==
    LET sl == getslice(time, e)
        inconstraint == ClipSlice(ConsArray(e, c), sl)
    IN  IF sl.err # "none"
        THEN [err |-> sl.err, isscalar |-> time.isscalar, val |-> << >>]
        ELSE IF time.isscalar
        THEN IF inconstraint = << >>
             THEN [err |-> "IndexError", isscalar |-> TRUE, val |-> << >>]
             ELSE [err |-> "none", isscalar |-> TRUE,
                   val |-> <<inconstraint[1]>>]
        ELSE [err |-> "none", isscalar |-> FALSE, val |-> inconstraint]

\* ----------------------------------------------------- visibility: state

\* The constraint switches (sun_cons, moon_cons, ...) of a mission: those of
\* Fermi and NICER, those of NuSTAR, and a mission that enables every one.
Configs == { {Earth, SAA}, {Earth, Moon, Sun}, Constraints }

\* What can be true at one instant of the ephemeris.
Patterns == { {}, {Sun, Earth}, {Ram}, {Earth}, {Moon, SAA} }

Ephemerides ==
    { [begin |-> EphOffset * StepSize, stepsize |-> StepSize, truth |-> tr] :
        tr \in [1..EphLen -> Patterns] }

\* The times a query may name: inside the ephemeris, which the mission's
\* constructor computes for the whole days of the query.
QueryTimes(e) ==
    { e.begin + QueryRes * j : j \in 0..((EphEnd(e) - e.begin) \div QueryRes) }

NewVis(cfg) ==
    [ cfg |-> cfg, ra |-> 0, dec |-> 0, begin |-> NoVal, end |-> NoVal,
      status |-> "new",
      entries |-> << >>, ephstart |-> NoVal, ephstop |-> NoVal,
      inconstraint |-> << >>, reads |-> << >> ]

NoSAA == [status |-> "idle"]

NoPointing == [status |-> "idle"]

NoProbe == [status |-> "idle"]

\* An ephemeris in which no constraint is ever true.
NoEphem ==
    [ begin |-> EphOffset * StepSize, stepsize |-> StepSize,
      truth |-> [k \in 1..EphLen |-> {}] ]

NoFOV == [status |-> "idle"]

NoCache == [status |-> "idle"]

NoTOO == [status |-> "idle"]

\* --------------------------------------------------- visibility: get()

\* The arrays a visibility object computes from the ephemeris: every one is
\* the slice [ephstart:ephstop] of the ephemeris' array.
VisSlice(e, o, c) == PySlice(ConsArray(e, c), o.ephstart, o.ephstop)

\* VisibilityBase.timestamp
VisTimestamp(e, o) == PySlice(EphTimestamps(e), o.ephstart, o.ephstop)

\* The combined array of get(): zeros, += each selected constraint's array.
Combined(e, o) ==
    [ k \in 1..Len(VisTimestamp(e, o)) |->
        \E c \in o.cfg : VisSlice(e, o, c)[k] ]

\* VisibilityBase.constraint(index): "IndexError" stands for the exception.
constraint(e, o, index) ==
    IF index = o.ephstart - 1 \/ index = o.ephstop - 1 THEN "Window"
    ELSE IF ~PyInRange(o.inconstraint, index) THEN "IndexError"
    ELSE IF PyAt(o.inconstraint, index)
         THEN IF PyAt(VisSlice(e, o, Sun), index) THEN "Sun"
              ELSE IF PyAt(VisSlice(e, o, Moon), index) THEN "Moon"
              ELSE IF Pole \in o.cfg /\ PyAt(VisSlice(e, o, Pole), index) THEN "Pole"
              ELSE IF PyAt(VisSlice(e, o, Earth), index) THEN "Earth"
              ELSE IF PyAt(VisSlice(e, o, SAA), index) THEN "SAA"
              ELSE "Unknown"
         ELSE "None"

\* wintype(begin=..., end=..., initial=..., final=...)
VisWindow(e, o, first, last, iinit, ifin) ==
    [ begin |-> EphTimestamp(e, first), end |-> EphTimestamp(e, last),
      initial |-> constraint(e, o, iinit), final |-> constraint(e, o, ifin) ]

WindowRaised(w) == w.initial = "IndexError" \/ w.final = "IndexError"

\* One read of the list handed to make_windows at position i: the instant the
\* list holds at that position, and the instant ephem.timestamp[i].
ReadAt(e, o, i) ==
    [ index |-> i,
      array |-> IF i < Len(VisTimestamp(e, o)) THEN PyAt(VisTimestamp(e, o), i)
                ELSE NoVal,
      ephem |-> EphTimestamp(e, i) ]

\* The loop of MakeWindowBase.make_windows, from index i on.  st is the loop's
\* state: inocc, inindex, windows, the reads made, and whether it raised.
RECURSIVE MakeWindowsLoop(_, _, _, _, _, _)
MakeWindowsLoop(e, o, inc, i, istop, st) ==
    IF i >= istop \/ st.raised THEN st
    ELSE IF ~PyInRange(inc, i)
    THEN [st EXCEPT !.raised = TRUE, !.reads = Append(@, ReadAt(e, o, i))]
    ELSE
      LET opens == st.inocc /\ ~PyAt(inc, i)
          inocc1 == IF opens THEN FALSE ELSE st.inocc
          inindex1 == IF opens THEN i ELSE st.inindex
          closes == ~inocc1 /\ PyAt(inc, i)
          win == VisWindow(e, o, inindex1, i - 1, inindex1 - 1, i)
          st1 == [ inocc |-> IF closes THEN TRUE ELSE inocc1,
                   inindex |-> inindex1,
                   windows |-> IF closes /\ ~WindowRaised(win)
                               THEN Append(st.windows, win) ELSE st.windows,
                   reads |-> Append(st.reads, ReadAt(e, o, i)),
                   raised |-> closes /\ WindowRaised(win) ]
      IN  MakeWindowsLoop(e, o, inc, i + 1, istop, st1)

\* MakeWindowBase.make_windows(inconstraint) on object o.
make_windows(e, o, inc) ==
    LET istart == ephindex(e, o.begin)
        istop == ephindex(e, o.end) + 1
        st == MakeWindowsLoop(e, o, inc, istart, istop,
                 [ inocc |-> TRUE, inindex |-> NoVal, windows |-> << >>,
                   reads |-> << >>, raised |-> FALSE ])
        i == istop - 1
        win == VisWindow(e, o, st.inindex, i, st.inindex - 1, i)
    IN  IF st.raised THEN st
        ELSE IF ~st.inocc
        THEN IF WindowRaised(win) THEN [st EXCEPT !.raised = TRUE]
             ELSE IF win.end - win.begin > 0
                  THEN [st EXCEPT !.windows = Append(@, win)]
                  ELSE st
        ELSE st

\* DateRangeSchema.check_dates, which validate_get() applies to begin and end.
validate_get(b, en) == b <= en

\* CoordSchema: ra = Field(ge=0, lt=360), dec = Field(ge=-90, le=90).
CoordSchema_closed(ra, dec) == ra >= 0 /\ ra <= 360 /\ dec >= -90 /\ dec <= 90

CoordSchema(ra, dec) == ra >= 0 /\ ra < 360 /\ dec >= -90 /\ dec <= 90

\* VisibilityGetSchema(CoordSchema, DateRangeSchema), which validate_get()
\* applies to a visibility object: the fields, then check_dates.
VisibilityGetSchema(o) == CoordSchema(o.ra, o.dec) /\ validate_get(o.begin, o.end)

\* A cached_property: computed on first use, then kept.
Cached(old, new) == IF old = NoVal THEN new ELSE old

\* VisibilityBase.get() on object o (begin and end are set).
get(e, o) ==
    LET o0 == [o EXCEPT !.begin = round_time(o.begin, StepSize),
                        !.entries = << >>]
        o1 == [o0 EXCEPT !.ephstart = Cached(@, ephindex(e, o0.begin)),
                         !.ephstop = Cached(@, ephindex(e, o0.end) + 1)]
        o2 == [o1 EXCEPT !.inconstraint = Combined(e, o1)]
        st == make_windows(e, o2, o2.inconstraint)
    IN  IF ~VisibilityGetSchema(o0)
        THEN [o0 EXCEPT !.status = "invalid"]
        ELSE IF st.raised
        THEN [o2 EXCEPT !.status = "IndexError", !.reads = st.reads]
        ELSE [o2 EXCEPT !.status = "ok", !.entries = st.windows,
                        !.reads = st.reads]

\* The constructor of a mission's visibility class for the query [b, en]: it
\* sets the parameters and, if they validate, runs get().
VisGet(b, en) ==
    /\ vis.status = "new"
    /\ vis' = IF VisibilityGetSchema([vis EXCEPT !.begin = b, !.end = en])
              THEN get(ephem, [vis EXCEPT !.begin = b, !.end = en])
              ELSE [vis EXCEPT !.begin = b, !.end = en, !.status = "invalid"]
    /\ UNCHANGED <<ephem, saa, pointing, probe, fov, cache, too>>

VisInit ==
    /\ ephem \in Ephemerides
    /\ vis \in { NewVis(cfg) : cfg \in Configs }
    /\ saa = NoSAA
    /\ pointing = NoPointing
    /\ probe = NoProbe
    /\ fov = NoFOV
    /\ cache = NoCache
    /\ too = NoTOO

VisNext == \E b \in QueryTimes(ephem), en \in QueryTimes(ephem) : VisGet(b, en)

SpecVis == VisInit /\ [][VisNext]_vars

\* ------------------------------------------- visibility: what is claimed

\* The ephemeris indices of the grid instants of the queried range.
QFirst == ephindex(ephem, vis.begin)
QLast == ephindex(ephem, vis.end)
QRange == QFirst..QLast

\* Some selected constraint is true at the instant of ephemeris index k.
InCons(k) == \E c \in vis.cfg : c \in ephem.truth[k + 1]

\* The maximal runs <<s, t>> of instants of the queried range free of
\* selected constraints.
FreeRuns ==
    { r \in QRange \X QRange :
        /\ r[1] <= r[2]
        /\ \A k \in r[1]..r[2] : ~InCons(k)
        /\ (r[1] = QFirst \/ InCons(r[1] - 1))
        /\ (r[2] = QLast \/ InCons(r[2] + 1)) }

\* The run a window names, as ephemeris indices.
WinRun(w) == <<ephindex(ephem, w.begin), ephindex(ephem, w.end)>>

Entries == 1..Len(vis.entries)

Covering(k) ==
    { j \in Entries : /\ vis.entries[j].begin <= EphTimestamp(ephem, k)
                      /\ EphTimestamp(ephem, k) <= vis.entries[j].end }

\* The label the tie-break order gives the instant of ephemeris index k.
LabelOrder == <<Sun, Moon, Pole, Earth, SAA, Ram>>

LabelAt(k) ==
    LET hits == { n \in 1..Len(LabelOrder) :
                    LabelOrder[n] \in vis.cfg \cap ephem.truth[k + 1] }
    IN  IF hits = {} THEN "None"
        ELSE LabelOrder[CHOOSE n \in hits : \A m \in hits : n <= m]

\* C1: whenever get() returns windows, every instant of the queried range is
\* either in constraint and inside no window, or free of constraints and
\* inside exactly one window (so the windows and the in-constraint instants
\* tile the range, and no two windows overlap).
C1_WindowsTileRange ==
    vis.status = "ok" =>
        \A k \in QRange :
            IF InCons(k) THEN Covering(k) = {}
            ELSE Cardinality(Covering(k)) = 1

\* C2: whenever get() returns on a range of one or more instants: a range in
\* constraint at every instant gives no window, and a range free of
\* constraints at every instant gives exactly one window, from the first to
\* the last instant of the range, labelled "Window"/"Window".
C2_AllOrNothing ==
    vis.status = "ok" =>
        /\ (\A k \in QRange : InCons(k)) => vis.entries = << >>
        /\ (\A k \in QRange : ~InCons(k)) =>
              vis.entries = << [ begin |-> EphTimestamp(ephem, QFirst),
                                 end |-> EphTimestamp(ephem, QLast),
                                 initial |-> "Window", final |-> "Window" ] >>

\* C3: whenever get() returns, its windows are exactly the maximal runs of
\* instants free of every selected constraint: one window per run, in time
\* order, from the run's first to the run's last instant.
C3_WindowsAreFreeRuns ==
    vis.status = "ok" =>
        /\ Len(vis.entries) = Cardinality(FreeRuns)
        /\ \A j \in Entries : WinRun(vis.entries[j]) \in FreeRuns
        /\ \A j \in Entries, k \in Entries :
              j < k => vis.entries[j].end < vis.entries[k].begin

\* C4: every position at which make_windows reads the combined array holds
\* the instant of the ephemeris timestamp at that same position.
C4_ReadsAligned ==
    \A j \in 1..Len(vis.reads) : vis.reads[j].array = vis.reads[j].ephem

\* C5: a window whose run does not start (end) at the boundary of the queried
\* range has as initial (final) label the first selected constraint, in the
\* order Sun, Moon, Pole, Earth, SAA, Ram, that is true just before (after)
\* the run.
C5_LabelIsFirstSelected ==
    vis.status = "ok" =>
        \A j \in Entries :
            LET w == vis.entries[j] IN
            /\ WinRun(w)[1] > QFirst => w.initial = LabelAt(WinRun(w)[1] - 1)
            /\ WinRun(w)[2] < QLast => w.final = LabelAt(WinRun(w)[2] + 1)

\* C6: a window's initial label is "Window" exactly when its run starts at
\* the first instant of the queried range, its final label is "Window"
\* exactly when its run ends at the last instant, and every other label is
\* the name of a constraint.
C6_WindowLabelIffBoundary ==
    vis.status = "ok" =>
        \A j \in Entries :
            LET w == vis.entries[j] IN
            /\ w.initial = "Window" <=> WinRun(w)[1] = QFirst
            /\ w.final = "Window" <=> WinRun(w)[2] = QLast
            /\ w.initial \in Constraints \cup {"Window"}
            /\ w.final \in Constraints \cup {"Window"}

\* ------------------------------------------------------ SAA and pointing

\* A step size a caller may choose besides the default.
OtherStep == (3 * StepSize) \div 4

Steps == {StepSize, OtherStep}

\* A day boundary: an instant on the grid of every step size.
DayBegin == EphOffset * 3 * StepSize

SaaEphemerides ==
    { [begin |-> DayBegin, stepsize |-> st, truth |-> tr] :
        st \in Steps, tr \in [1..EphLen -> {{}, {SAA}}] }

\* Python's int(a / b) for b > 0: truncation towards zero.
PyInt(a, b) == IF a >= 0 THEN a \div b ELSE -((-a) \div b)

\* The elements of a finite set of integers in increasing order
\* (np.flatnonzero).
RECURSIVE Ascending(_)
Ascending(S) ==
    IF S = {} THEN << >>
    ELSE LET m == CHOOSE x \in S : \A y \in S : x <= y
         IN  <<m>> \o Ascending(S \ {m})

\* np.linspace(begin, end, steps): the instants, each multiplied by scale so
\* that it is a whole number (scale is 1 when the spacing is whole).
linspace(begin, end, steps) ==
    IF steps <= 1
    THEN [scale |-> 1, ts |-> IF steps = 1 THEN <<begin>> ELSE << >>]
    ELSE IF (end - begin) % (steps - 1) = 0
    THEN [scale |-> 1,
          ts |-> [k \in 1..steps |->
                    begin + (k - 1) * ((end - begin) \div (steps - 1))]]
    ELSE [scale |-> steps - 1,
          ts |-> [k \in 1..steps |-> begin * (steps - 1) + (k - 1) * (end - begin)]]

\* saa_windows with the exclusive end index used as the last index.
saa_windows_endoff(insaa, timestamp) ==
    LET buff == <<FALSE>> \o insaa \o <<FALSE>>
        begin == Ascending({j \in 0..(Len(buff) - 2) : ~PyAt(buff, j) /\ PyAt(buff, j + 1)})
        end == Ascending({j \in 0..(Len(buff) - 2) : PyAt(buff, j) /\ ~PyAt(buff, j + 1)})
        indices == [k \in 1..Len(begin) |-> <<begin[k], end[k]>>]
    IN  IF \E k \in 1..Len(indices) : ~PyInRange(timestamp, indices[k][2])
        THEN [raised |-> TRUE, entries |-> << >>]
        ELSE [raised |-> FALSE,
              entries |-> [k \in 1..Len(indices) |->
                             [begin |-> PyAt(timestamp, indices[k][1]),
                              end |-> PyAt(timestamp, indices[k][2])]]]

\* SAABase.saa_windows(insaa): the runs of True of insaa, as pairs of
\* timestamps; raised stands for numpy's IndexError.
saa_windows(insaa, timestamp) ==
    LET buff == <<FALSE>> \o insaa \o <<FALSE>>
        begin == Ascending({j \in 0..(Len(buff) - 2) : ~PyAt(buff, j) /\ PyAt(buff, j + 1)})
        end == Ascending({j \in 0..(Len(buff) - 2) : PyAt(buff, j) /\ ~PyAt(buff, j + 1)})
        indices == [k \in 1..Len(begin) |-> <<begin[k], end[k] - 1>>]
    IN  IF \E k \in 1..Len(indices) : ~PyInRange(timestamp, indices[k][2])
        THEN [raised |-> TRUE, entries |-> << >>]
        ELSE [raised |-> FALSE,
              entries |-> [k \in 1..Len(indices) |->
                             [begin |-> PyAt(timestamp, indices[k][1]),
                              end |-> PyAt(timestamp, indices[k][2])]]]

\* make_windows(insaa, timestamp) of tests/test_swift_saa.py,
\* tests/test_burstcube_saa.py and tests/constraints/test_burstcube_saa.py.
test_make_windows(insaa, timestamp) ==
    LET buff == <<FALSE>> \o insaa \o <<FALSE>>
        begin == Ascending({j \in 0..(Len(buff) - 2) : ~PyAt(buff, j) /\ PyAt(buff, j + 1)})
        end == Ascending({j \in 0..(Len(buff) - 2) : PyAt(buff, j) /\ ~PyAt(buff, j + 1)})
        indices == [k \in 1..Len(begin) |-> <<begin[k], end[k] - 1>>]
    IN  IF \E k \in 1..Len(indices) : ~PyInRange(timestamp, indices[k][2])
        THEN [raised |-> TRUE, entries |-> << >>]
        ELSE [raised |-> FALSE,
              entries |-> [k \in 1..Len(indices) |->
                             [begin |-> PyAt(timestamp, indices[k][1]),
                              end |-> PyAt(timestamp, indices[k][2])]]]

\* One call is followed per behaviour: nothing has been called yet.
Idle == saa.status = "idle" /\ pointing.status = "idle" /\ probe.status = "idle"

NewSaa(kind, b, en, st) ==
    [ status |-> "new", kind |-> kind, begin |-> b, end |-> en,
      stepsize |-> st, scale |-> 1, timestamp |-> << >>, insaa |-> << >>,
      entries |-> << >> ]

\* SAABase.get() on object o.
saa_get(e, o) ==
    LET steps == PyInt(o.end - o.begin, o.stepsize) + 1
        grid == linspace(o.begin, o.end, steps)
        o1 == [o EXCEPT !.scale = grid.scale, !.timestamp = grid.ts]
        \* getslice reads the first and the last instant, which are whole
        time == ArrayTime([k \in 1..Len(grid.ts) |-> grid.ts[k] \div grid.scale])
        insaa == Predicate(SAA, time, e)
        win == saa_windows(insaa.val, grid.ts)
    IN  IF insaa.err # "none" THEN [o1 EXCEPT !.status = insaa.err]
        ELSE IF win.raised
        THEN [o1 EXCEPT !.status = "IndexError", !.insaa = insaa.val]
        ELSE [o1 EXCEPT !.status = "ok", !.insaa = insaa.val,
                        !.entries = win.entries]

\* SAABase.__init__(begin, end, ephem, stepsize): with an ephemeris supplied
\* the object takes its step size over; without one it computes the
\* ephemeris of the days of the range at its own step size.
SaaGet(b, en, stepsize, supplied) ==
    /\ Idle
    /\ supplied \/ ephem.stepsize = stepsize
    /\ LET o == NewSaa("SAABase", round_time(b, stepsize),
                       round_time(en, stepsize),
                       IF supplied THEN ephem.stepsize ELSE stepsize)
       IN  saa' = IF validate_get(o.begin, o.end) THEN saa_get(ephem, o)
                  ELSE [o EXCEPT !.status = "invalid"]
    /\ UNCHANGED <<ephem, vis, pointing, probe, fov, cache, too>>

\* The SAA tests: the SAA constraint over the whole ephemeris, then
\* make_windows on it and the ephemeris' timestamps.
SaaTest ==
    /\ Idle
    /\ LET o == NewSaa("test", ephem.begin, EphEnd(ephem), ephem.stepsize)
           insaa == Predicate(SAA, ArrayTime(EphTimestamps(ephem)), ephem)
           win == test_make_windows(insaa.val, EphTimestamps(ephem))
       IN  saa' = [o EXCEPT !.status = "ok", !.timestamp = EphTimestamps(ephem),
                            !.insaa = insaa.val, !.entries = win.entries]
    /\ UNCHANGED <<ephem, vis, pointing, probe, fov, cache, too>>

\* PointingBase.times
PointingTimes(b, en, stepsize) ==
    /\ Idle
    /\ LET begin == round_time(b, stepsize)
           end == round_time(en, stepsize)
           number == PyInt(end - begin, stepsize)
       IN  pointing' = [ status |-> "done", begin |-> begin, end |-> end,
                         stepsize |-> stepsize,
                         times |-> [k \in 1..(number + 1) |->
                                      begin + (k - 1) * stepsize] ]
    /\ UNCHANGED <<ephem, vis, saa, probe, fov, cache, too>>

SaaInit ==
    /\ ephem \in SaaEphemerides
    /\ vis = NewVis({SAA})
    /\ saa = NoSAA
    /\ pointing = NoPointing
    /\ probe = NoProbe
    /\ fov = NoFOV
    /\ cache = NoCache
    /\ too = NoTOO

SaaNext ==
    \/ \E b \in QueryTimes(ephem), en \in QueryTimes(ephem), st \in Steps,
          supplied \in BOOLEAN : SaaGet(b, en, st, supplied)
    \/ SaaTest
    \/ \E b \in QueryTimes(ephem), en \in QueryTimes(ephem), st \in Steps :
          PointingTimes(b, en, st)

SpecSaa == SaaInit /\ [][SaaNext]_vars

\* -------------------------------------------- SAA and pointing: claims

\* The grid of instants is evenly spaced by step from begin: it has
\* floor((end - begin) / step) + 1 instants, starts at begin, and consecutive
\* instants differ by exactly step (instants are multiplied by scale).
EvenGrid(ts, scale, begin, end, step) ==
    /\ Len(ts) = (end - begin) \div step + 1
    /\ ts[1] = begin * scale
    /\ \A k \in 1..(Len(ts) - 1) : ts[k + 1] - ts[k] = step * scale

\* C7: for begin <= end the time grid of SAABase.get and of
\* PointingBase.times is evenly spaced by the step size the object uses.
C7_GridEvenlySpaced ==
    /\ (saa.status \notin {"idle", "invalid"} /\ saa.kind = "SAABase") =>
          EvenGrid(saa.timestamp, saa.scale, saa.begin, saa.end, saa.stepsize)
    /\ (pointing.status = "done" /\ pointing.begin <= pointing.end) =>
          EvenGrid(pointing.times, 1, pointing.begin, pointing.end,
                   pointing.stepsize)

\* The maximal runs <<s, t>> of True of the array arr (indices from 0).
TrueRuns(arr) ==
    { r \in (0..(Len(arr) - 1)) \X (0..(Len(arr) - 1)) :
        /\ r[1] <= r[2]
        /\ \A k \in r[1]..r[2] : PyAt(arr, k)
        /\ (r[1] = 0 \/ ~PyAt(arr, r[1] - 1))
        /\ (r[2] = Len(arr) - 1 \/ ~PyAt(arr, r[2] + 1)) }

\* C10: for an in-SAA array over the grid of timestamps, the SAA window
\* extraction returns exactly one entry per maximal run of True of the array,
\* in time order, each from the timestamp of the run's first index to the
\* timestamp of its last index (begin <= end); runs at either end of the grid
\* are included and an all-False array gives no entry.
C10_SaaEntriesAreTrueRuns ==
    (saa.status \in {"ok", "IndexError"} /\ Len(saa.insaa) = Len(saa.timestamp)) =>
        /\ saa.status = "ok"
        /\ Len(saa.entries) = Cardinality(TrueRuns(saa.insaa))
        /\ \A j \in 1..Len(saa.entries) :
              /\ \E r \in TrueRuns(saa.insaa) :
                    /\ saa.entries[j].begin = PyAt(saa.timestamp, r[1])
                    /\ saa.entries[j].end = PyAt(saa.timestamp, r[2])
                    /\ Cardinality({q \in TrueRuns(saa.insaa) : q[1] < r[1]}) = j - 1
              /\ saa.entries[j].begin <= saa.entries[j].end
        /\ (\A k \in 1..Len(saa.insaa) : ~saa.insaa[k]) => saa.entries = << >>

\* SAA extraction has returned entries for an array with a run at the first
\* instant, a run of length 1 and a run at the last instant.
C10_Witness ==
    /\ saa.status = "ok"
    /\ saa.kind = "SAABase"
    /\ Len(saa.insaa) = Len(saa.timestamp)
    /\ Len(saa.insaa) >= 3
    /\ Len(saa.entries) = 2
    /\ saa.entries[1].begin = saa.timestamp[1]
    /\ saa.entries[1].end = saa.entries[1].begin
    /\ saa.entries[2].end = saa.timestamp[Len(saa.timestamp)]

\* ------------------------------------------- constraint predicates: use

\* The instants a caller may ask a predicate about: from one step before the
\* ephemeris to one step after it.
ProbeTimes(e) ==
    { e.begin - e.stepsize + QueryRes * j :
        j \in 0..((EphEnd(e) - e.begin + 2 * e.stepsize) \div QueryRes) }

\* Arrays of instants as the callers build them (a grid in increasing
\* order): one instant, or the first and the last instant of a range.
ProbeArrays(e) ==
    { <<t>> : t \in ProbeTimes(e) }
    \cup { p \in ProbeTimes(e) \X ProbeTimes(e) : p[1] < p[2] }

ProbeEphemerides ==
    { [begin |-> EphOffset * StepSize, stepsize |-> StepSize, truth |-> tr] :
        tr \in [1..EphLen -> { {Sun, Earth, Pole}, {SAA, Ram, Moon} }] }

\* One evaluation of the predicate of constraint c at the given time.
Evaluate(c, time) ==
    /\ Idle
    /\ probe' = [ status |-> "evaluated", c |-> c, time |-> time,
                  slice |-> getslice(time, ephem),
                  result |-> Predicate(c, time, ephem) ]
    /\ UNCHANGED <<ephem, vis, saa, pointing, fov, cache, too>>

\* The round trip: the predicate of constraint c at the scalar instant t,
\* then at the array [t].
RoundTrip(c, t) ==
    /\ Idle
    /\ probe' = [ status |-> "roundtrip", c |-> c, time |-> ScalarTime(t),
                  scalar |-> Predicate(c, ScalarTime(t), ephem),
                  array |-> Predicate(c, ArrayTime(<<t>>), ephem) ]
    /\ UNCHANGED <<ephem, vis, saa, pointing, fov, cache, too>>

ConsInit ==
    /\ ephem \in ProbeEphemerides
    /\ vis = NewVis({})
    /\ saa = NoSAA
    /\ pointing = NoPointing
    /\ probe = NoProbe
    /\ fov = NoFOV
    /\ cache = NoCache
    /\ too = NoTOO

ConsNext ==
    \/ \E c \in Constraints, t \in ProbeTimes(ephem) : Evaluate(c, ScalarTime(t))
    \/ \E c \in Constraints, ts \in ProbeArrays(ephem) : Evaluate(c, ArrayTime(ts))
    \/ \E c \in Constraints, t \in ProbeTimes(ephem) : RoundTrip(c, t)

SpecCons == ConsInit /\ [][ConsNext]_vars

InEphemeris(t) == ephem.begin <= t /\ t <= EphEnd(ephem)

\* C8: for every constraint and every instant inside the ephemeris, the
\* predicate at the scalar instant returns the boolean that is the single
\* element of its result at the array holding that one instant.
C8_ScalarAgreesWithArray ==
    (probe.status = "roundtrip" /\ InEphemeris(probe.time.ts[1])) =>
        /\ probe.scalar.err = "none"
        /\ probe.array.err = "none"
        /\ probe.scalar.isscalar
        /\ Len(probe.array.val) = 1
        /\ probe.scalar.val[1] = probe.array.val[1]

\* A round trip inside the ephemeris at an instant where the constraint is
\* true and the next instant's is not.
C8_Witness ==
    /\ probe.status = "roundtrip"
    /\ InEphemeris(probe.time.ts[1])
    /\ probe.scalar.val = <<TRUE>>
    /\ ephindex(ephem, probe.time.ts[1]) < EphCount(ephem) - 1
    /\ probe.c \notin ephem.truth[ephindex(ephem, probe.time.ts[1]) + 2]

\* C9: when the requested instant, or any instant of the requested array,
\* lies outside [ephem.begin, ephem.end], getslice and the predicate raise and
\* return nothing; a slice that is returned covers every requested instant.
C9_OutOfRangeRaises ==
    probe.status = "evaluated" =>
        /\ (\E k \in 1..Len(probe.time.ts) : ~InEphemeris(probe.time.ts[k])) =>
              /\ probe.slice.err # "none"
              /\ probe.result.err # "none"
              /\ probe.result.val = << >>
        /\ probe.slice.err = "none" =>
              \A k \in 1..Len(probe.time.ts) :
                  /\ probe.slice.start <= ephindex(ephem, probe.time.ts[k])
                  /\ ephindex(ephem, probe.time.ts[k]) < probe.slice.stop

\* A request for an array that starts inside the ephemeris and ends after it
\* has been refused.
C9_Witness ==
    /\ probe.status = "evaluated"
    /\ ~probe.time.isscalar
    /\ InEphemeris(probe.time.ts[1])
    /\ probe.time.ts[Len(probe.time.ts)] > EphEnd(ephem)
    /\ probe.slice.err = "AssertionError"

\* ------------------------------------------------------------ field of view

\* The sky of the field-of-view model: a ring of SkyPix HEALPix pixels,
\* numbered from 0; a sky position is the centre of a pixel.
SkyPix == 4

Pixels == 0..(SkyPix - 1)

\* The width of a pixel in arc minutes.
PixArcmin == (360 * 60) \div SkyPix

\* angular_separation of two pixel centres, in pixels.
PixSep(p, q) ==
    LET d == IF p >= q THEN p - q ELSE q - p
    IN  Min(d, SkyPix - d)

\* Probabilities are fixed-point numbers: a map holds millionths, a returned
\* probability holds units of 10^-5 (the result of round(x, 5)).
Million == 1000 * 1000

One == 100 * 1000

\* 1000 * exp(-n / 8) for n = 0, 1, 2, ...; 0 beyond the table.
ExpTable ==
    << 1000, 882, 779, 687, 607, 535, 472, 417, 368, 325, 287, 253, 223, 197,
       174, 153, 135, 119, 105, 93, 82, 72, 64, 56, 50, 44, 39, 34, 30, 27,
       24, 21, 18, 16, 14, 13, 11, 10, 9, 8, 7, 6, 5, 5, 4, 4, 3, 3, 2, 2, 2,
       2, 2, 1, 1, 1 >>

ExpMilli(n) == IF n >= Len(ExpTable) THEN 0 ELSE ExpTable[n + 1]

\* normal_pdf(x, standard_deviation), both in arc minutes: the exponent
\* -(x^2) / (2 sd^2) in eighths, and 1 / sqrt(2 pi) = 0.399.
normal_pdf(x, sd) == (399 * ExpMilli((4 * x * x) \div (sd * sd))) \div sd

RECURSIVE SeqSum(_)
SeqSum(s) == IF s = << >> THEN 0 ELSE s[1] + SeqSum(Tail(s))

\* np.divide(prob, np.sum(prob)): 0 / 0 is nan, which is not > 0.0.
Normalised(prob, total) ==
    [ q \in 1..Len(prob) |->
        IF total = 0 THEN 0 ELSE ((prob[q] * 1000) \div total) * 1000 ]

\* The normal density of every pixel's distance from the pixel p.
PositionPdf(p, error_radius) ==
    [ q \in 1..SkyPix |->
        normal_pdf(PixSep(p, q - 1) * PixArcmin, error_radius) ]

\* healpix_map_from_position_error(skycoord, error_radius): the normal
\* density of every pixel's distance from the position, divided by its sum.
healpix_map_from_position_error(p, error_radius) ==
    Normalised(PositionPdf(p, error_radius), SeqSum(PositionPdf(p, error_radius)))

\* round(x, 5) of a number of millionths, in units of 10^-5 (ties to even).
round5(x) ==
    LET q == x \div 10
        r == x % 10
    IN  IF r < 5 THEN q
        ELSE IF r > 5 THEN q + 1
        ELSE IF q % 2 = 0 THEN q ELSE q + 1

\* Optional arguments: given = FALSE stands for None.
NoCoord == [given |-> FALSE, isscalar |-> TRUE, pix |-> << >>]

ScalarCoord(p) == [given |-> TRUE, isscalar |-> TRUE, pix |-> <<p>>]

ArrayCoord(ps) == [given |-> TRUE, isscalar |-> FALSE, pix |-> ps]

NoMap == [given |-> FALSE, prob |-> << >>]

Map(prob) == [given |-> TRUE, prob |-> prob]

\* The outcome of a call: the exception it raised ("none" if it returned),
\* the value it returned, and the methods that were entered, in order.
FovRaise(err, trace) == [err |-> err, val |-> NoVal, mask |-> << >>, trace |-> trace]

FovReturn(val, trace) == [err |-> "none", val |-> val, mask |-> << >>, trace |-> trace]

\* The parameters of EarthLimbConstraint.__call__ after self.
EarthLimbParams == {"coord", "time", "ephem"}

\* The keywords with which FOVBase.infov calls self.earth_constraint.
InfovKeywords == {"skycoord", "time", "ephem"}

\* angular_separation(earth[i], coord) < earthsize[i] + earthoccult at the
\* ephemeris indices idx (numbered from 1), broadcast over the coordinates.
EarthLimbMask(earthoccult, coord, idx, e) ==
    [ j \in 1..(IF Len(idx) = 1 THEN Len(coord.pix) ELSE Len(idx)) |->
        PixSep(e.earth[IF Len(idx) = 1 THEN idx[1] ELSE idx[j]],
               IF Len(coord.pix) = 1 THEN coord.pix[1] ELSE coord.pix[j])
            < e.earthsize[IF Len(idx) = 1 THEN idx[1] ELSE idx[j]] + earthoccult ]

\* return inconstraint[0] if time.isscalar and coord.isscalar else inconstraint
EarthLimbReturn(coord, time, inconstraint) ==
    IF time.isscalar /\ coord.isscalar
    THEN IF inconstraint = << >> THEN [err |-> "IndexError", val |-> << >>]
         ELSE [err |-> "none", val |-> <<inconstraint[1]>>]
    ELSE [err |-> "none", val |-> inconstraint]

\* The comparison over the indices idx: arrays of different lengths, neither
\* of length 1, cannot be broadcast (ValueError).
EarthLimbAt(earthoccult, coord, time, e, idx) ==
    IF Len(idx) # 1 /\ Len(coord.pix) # 1 /\ Len(idx) # Len(coord.pix)
    THEN [err |-> "ValueError", val |-> << >>]
    ELSE EarthLimbReturn(coord, time, EarthLimbMask(earthoccult, coord, idx, e))

\* i = getslice(time, ephem) and the arrays ephem.earth[i], ephem.earthsize[i]
EarthLimbSliced(earthoccult, coord, time, e, sl) ==
    IF sl.err # "none" THEN [err |-> sl.err, val |-> << >>]
    ELSE EarthLimbAt(earthoccult, coord, time, e,
                     ClipSlice([k \in 1..EphCount(e) |-> k], sl))

\* EarthLimbConstraint.__call__ called with the keywords kw: a keyword that
\* is no parameter is a TypeError.
EarthLimbConstraint(kw, earthoccult, coord, time, e) ==
    IF ~(kw \subseteq EarthLimbParams) THEN [err |-> "TypeError", val |-> << >>]
    ELSE EarthLimbSliced(earthoccult, coord, time, e, getslice(time, e))

\* np.logical_not(earth_occultation)
logical_not(earth_occultation) ==
    IF earth_occultation.err # "none"
    THEN FovRaise(earth_occultation.err, <<"infov">>)
    ELSE [ FovReturn(NoVal, <<"infov">>) EXCEPT
             !.mask = [ j \in 1..Len(earth_occultation.val) |->
                          ~earth_occultation.val[j] ] ]

\* FOVBase.infov: not (Earth occulted).
infov(o, coord, time, e) ==
    logical_not(EarthLimbConstraint(InfovKeywords, o.earthoccult, coord, time, e))

\* np.where(healpix_loc > 0.0)[0], as pixel numbers.
RECURSIVE NonzeroFrom(_, _)
NonzeroFrom(prob, q) ==
    IF q > Len(prob) THEN << >>
    ELSE (IF prob[q] > 0 THEN <<q - 1>> ELSE << >>) \o NonzeroFrom(prob, q + 1)

nonzero_prob_pixels(prob) == NonzeroFrom(prob, 1)

\* nside_to_pixel_area, in thousandths of the sky: a NUNIQ map holds the
\* probability density of its pixels (millionths per thousandth of the sky).
PixArea == 1000 \div SkyPix

\* sum(healpix_loc[nonzero_prob_pixels[mask]] * weight)
RECURSIVE VisibleSum(_, _, _, _, _)
VisibleSum(prob, nz, mask, weight, j) ==
    IF j > Len(nz) THEN 0
    ELSE (IF mask[j] THEN prob[nz[j] + 1] * weight ELSE 0)
         + VisibleSum(prob, nz, mask, weight, j + 1)

\* float(round(np.sum(healpix_loc[visible_pixels] * weight), 5)) for the
\* mask r that infov returned for the pixels nz.
MapSum(prob, nz, r, weight) ==
    IF r.err # "none" THEN FovRaise(r.err, <<"infov_healpix_map">> \o r.trace)
    ELSE IF Len(r.mask) # Len(nz)
    THEN FovRaise("IndexError", <<"infov_healpix_map">> \o r.trace)
    ELSE FovReturn(round5(VisibleSum(prob, nz, r.mask, weight, 1)),
                   <<"infov_healpix_map">> \o r.trace)

\* The part of infov_healpix_map after nonzero_prob_pixels is known.
MapVisible(o, prob, nz, time, e, healpix_order) ==
    MapSum(prob, nz, infov(o, ArrayCoord(nz), time, e),
           IF healpix_order = "NUNIQ" THEN PixArea ELSE 1)

\* FOVBase.infov_healpix_map: healpix_loc.prob is the map (NESTED) or its
\* PROBDENSITY column (NUNIQ), one value per pixel of the sky.
infov_healpix_map(o, healpix_loc, time, e, healpix_order) ==
    MapVisible(o, healpix_loc.prob, nonzero_prob_pixels(healpix_loc.prob),
               time, e, healpix_order)

Prepend(name, r) == [r EXCEPT !.trace = <<name>> \o @]

\* FOVBase.infov_circular_error
infov_circular_error(o, skycoord, error_radius, time, e) ==
    IF ~skycoord.isscalar
    THEN FovRaise("AssertionError", <<"infov_circular_error">>)
    ELSE Prepend("infov_circular_error",
            Prepend("healpix_map_from_position_error",
                infov_healpix_map(o,
                    Map(healpix_map_from_position_error(skycoord.pix[1], error_radius)),
                    time, e, "NESTED")))

\* return 1.0 if infov else 0.0: the truth value of an array of more than
\* one element is a ValueError.
OneOrZero(r) ==
    IF r.err # "none" THEN r
    ELSE IF Len(r.mask) # 1 THEN FovRaise("ValueError", r.trace)
    ELSE FovReturn(IF r.mask[1] THEN One ELSE 0, r.trace)

\* probability_infov without its last line: a call with no position and no
\* map goes on to the map branch.
probability_infov_unchecked(o, time, e, skycoord, error_radius, healpix_loc) ==
    IF skycoord.given /\ error_radius = NoVal
    THEN Prepend("probability_infov", OneOrZero(infov(o, skycoord, time, e)))
    ELSE IF skycoord.given /\ error_radius # NoVal
    THEN Prepend("probability_infov",
            infov_circular_error(o, skycoord, error_radius, time, e))
    ELSE Prepend("probability_infov", infov_healpix_map(o, healpix_loc, time, e, "NESTED"))

\* FOVBase.probability_infov
probability_infov(o, time, e, skycoord, error_radius, healpix_loc) ==
    IF skycoord.given /\ error_radius = NoVal
    THEN Prepend("probability_infov", OneOrZero(infov(o, skycoord, time, e)))
    ELSE IF skycoord.given /\ error_radius # NoVal
    THEN Prepend("probability_infov",
            infov_circular_error(o, skycoord, error_radius, time, e))
    ELSE IF healpix_loc.given
    THEN Prepend("probability_infov", infov_healpix_map(o, healpix_loc, time, e, "NESTED"))
    ELSE FovRaise("AssertionError", <<"probability_infov">>)


\* ---------------------------------------------------- field of view: state

\* The ephemerides of the field-of-view model: the Earth's centre moves by
\* one pixel per instant, its angular radius (in pixels) is constant.
FovEphemerides ==
    { [ begin |-> EphOffset * StepSize, stepsize |-> StepSize,
        truth |-> [k \in 1..EphLen |-> {}],
        earth |-> [k \in 1..EphLen |-> (c + k) % SkyPix],
        earthsize |-> [k \in 1..EphLen |-> size] ] :
        c \in Pixels, size \in 0..2 }

\* The grid instants of the ephemeris and the instant before its first.
FovTimes(e) == { e.begin + (k - 1) * e.stepsize : k \in 0..EphCount(e) }

FovCoords == { ScalarCoord(p) : p \in Pixels } \cup { ArrayCoord(<<0, 1>>) }

\* Error radii in arc minutes: one arc minute, one and two pixels.
FovRadii == { 1, PixArcmin, 2 * PixArcmin }

\* Maps in NESTED order: all the probability in one pixel, the same
\* probability in every pixel, and all but 4 millionths in pixel 0.
Delta(p) == [q \in 1..SkyPix |-> IF q = p + 1 THEN Million ELSE 0]

Uniform == [q \in 1..SkyPix |-> Million \div SkyPix]

Faint == [q \in 1..SkyPix |-> IF q = 1 THEN Million - 4 ELSE IF q = 2 THEN 4 ELSE 0]

NestedMaps == { Map(Delta(0)), Map(Delta(1)), Map(Uniform), Map(Faint) }

\* The PROBDENSITY column of the same map in NUNIQ order.
Density(prob) == [q \in 1..Len(prob) |-> prob[q] \div PixArea]

FovCalled(call, time, skycoord, error_radius, healpix_loc, order, result) ==
    [ fov EXCEPT !.status = "done", !.call = call, !.time = time,
                 !.skycoord = skycoord, !.error_radius = error_radius,
                 !.healpix_loc = healpix_loc, !.order = order,
                 !.result = result ]

NewFOV(earthoccult) ==
    [ status |-> "idle", earthoccult |-> earthoccult, call |-> "", time |-> NoVal,
      skycoord |-> NoCoord, error_radius |-> NoVal, healpix_loc |-> NoMap,
      order |-> "NESTED", result |-> FovReturn(NoVal, << >>) ]

ProbabilityInfov(t, skycoord, error_radius, healpix_loc) ==
    /\ fov.status = "idle"
    /\ fov' = FovCalled("probability_infov", t, skycoord, error_radius, healpix_loc,
                "NESTED",
                probability_infov(fov, ScalarTime(t), ephem, skycoord, error_radius,
                                  healpix_loc))
    /\ UNCHANGED <<ephem, vis, saa, pointing, probe, cache, too>>

InfovCircularError(t, skycoord, error_radius) ==
    /\ fov.status = "idle"
    /\ fov' = FovCalled("infov_circular_error", t, skycoord, error_radius, NoMap,
                "NESTED",
                infov_circular_error(fov, skycoord, error_radius, ScalarTime(t), ephem))
    /\ UNCHANGED <<ephem, vis, saa, pointing, probe, cache, too>>

InfovHealpixMap(t, healpix_loc, healpix_order) ==
    /\ fov.status = "idle"
    /\ fov' = FovCalled("infov_healpix_map", t, NoCoord, NoVal,
                IF healpix_order = "NUNIQ" THEN Map(Density(healpix_loc.prob))
                ELSE healpix_loc,
                healpix_order,
                infov_healpix_map(fov,
                    IF healpix_order = "NUNIQ" THEN Map(Density(healpix_loc.prob))
                    ELSE healpix_loc,
                    ScalarTime(t), ephem, healpix_order))
    /\ UNCHANGED <<ephem, vis, saa, pointing, probe, cache, too>>

FovInit ==
    /\ ephem \in FovEphemerides
    /\ vis = NewVis({})
    /\ saa = NoSAA
    /\ pointing = NoPointing
    /\ probe = NoProbe
    /\ fov \in { NewFOV(x) : x \in 0..1 }
    /\ cache = NoCache
    /\ too = NoTOO

FovNext ==
    \/ \E t \in FovTimes(ephem), skycoord \in FovCoords \cup {NoCoord},
          error_radius \in FovRadii \cup {NoVal},
          healpix_loc \in NestedMaps \cup {NoMap} :
          ProbabilityInfov(t, skycoord, error_radius, healpix_loc)
    \/ \E t \in FovTimes(ephem), skycoord \in FovCoords, error_radius \in FovRadii :
          InfovCircularError(t, skycoord, error_radius)
    \/ \E t \in FovTimes(ephem), healpix_loc \in NestedMaps,
          healpix_order \in {"NESTED", "NUNIQ"} :
          InfovHealpixMap(t, healpix_loc, healpix_order)

SpecFov == FovInit /\ [][FovNext]_vars

\* ---------------------------------------------------- field of view: claims

\* The centre of pixel p is behind the Earth's limb at the instant of the call.
Occulted(p) ==
    LET k == ephindex(ephem, fov.time) + 1
    IN  PixSep(ephem.earth[k], p) < ephem.earthsize[k] + fov.earthoccult

\* A call of probability_infov for a point source inside the ephemeris.
PointSourceCall ==
    /\ fov.status = "done"
    /\ fov.call = "probability_infov"
    /\ fov.skycoord.given
    /\ fov.skycoord.isscalar
    /\ fov.error_radius = NoVal
    /\ ~fov.healpix_loc.given
    /\ InEphemeris(fov.time)

\* C11: probability_infov for a point source (a sky position, no error
\* radius, no map) returns exactly 1.0 when the position is not occulted by
\* the Earth at the time of the call and exactly 0.0 when it is.
C11_PointSourceZeroOrOne ==
    PointSourceCall =>
        /\ fov.result.err = "none"
        /\ fov.result.val = IF Occulted(fov.skycoord.pix[1]) THEN 0 ELSE One

\* C12: probability_infov called with neither a sky position nor a map
\* raises AssertionError without entering any other method, whether or not
\* an error radius is given; infov_circular_error raises AssertionError for
\* more than one sky position.
C12_NoTargetRaises ==
    fov.status = "done" =>
        /\ (fov.call = "probability_infov" /\ ~fov.skycoord.given
                /\ ~fov.healpix_loc.given)
            => /\ fov.result.err = "AssertionError"
               /\ fov.result.trace = <<"probability_infov">>
        /\ (fov.call = "infov_circular_error" /\ Len(fov.skycoord.pix) > 1)
            => /\ fov.result.err = "AssertionError"
               /\ fov.result.trace = <<"infov_circular_error">>

\* probability_infov was called with an error radius only and raised.
C12_Witness ==
    /\ fov.status = "done"
    /\ fov.call = "probability_infov"
    /\ ~fov.skycoord.given
    /\ ~fov.healpix_loc.given
    /\ fov.error_radius # NoVal
    /\ fov.result.err = "AssertionError"

\* C13: an error radius below the point-source tolerance of 5 arc minutes is
\* treated as a point source: probability_infov returns 0.0 or 1.0 as for
\* the position alone and rasterises no map.
C13_SmallRadiusIsPointSource ==
    LET tolerance == 5
    IN  ( /\ fov.status = "done"
          /\ fov.call = "probability_infov"
          /\ fov.skycoord.given
          /\ fov.skycoord.isscalar
          /\ fov.error_radius # NoVal
          /\ fov.error_radius < tolerance
          /\ InEphemeris(fov.time) )
        => /\ fov.result.err = "none"
           /\ fov.result.val = IF Occulted(fov.skycoord.pix[1]) THEN 0 ELSE One
           /\ \A j \in 1..Len(fov.result.trace) :
                fov.result.trace[j] # "healpix_map_from_position_error"

\* The probability (in millionths) of the pixels of the map of the call that
\* are non-zero and not occulted.
VisibleProb ==
    LET weight == IF fov.order = "NUNIQ" THEN PixArea ELSE 1
    IN  SeqSum([ q \in 1..Len(fov.healpix_loc.prob) |->
                    IF fov.healpix_loc.prob[q] > 0 /\ ~Occulted(q - 1)
                    THEN fov.healpix_loc.prob[q] * weight ELSE 0 ])

\* C14: infov_healpix_map returns the sum of the probabilities of exactly
\* the non-zero pixels whose centre is not occulted (rounded to 5 decimals);
\* the value lies in [0, 1] and is 1.0 when no pixel of a map that sums to 1
\* is occulted.
C14_MapSumsVisiblePixels ==
    ( /\ fov.status = "done"
      /\ fov.call = "infov_healpix_map"
      /\ InEphemeris(fov.time) )
    => /\ fov.result.err = "none"
       /\ fov.result.val = round5(VisibleProb)
       /\ 0 <= fov.result.val /\ fov.result.val <= One
       /\ (VisibleProb = Million) => fov.result.val = One

\* --------------------------------------------------------------- TLE epoch

\* The epoch field of TLE line 1 (tle1.split()[3]), "YYDDD.FFFFFFFF": a record
\* of its five leading digits and of its fraction of a day in halves.
EpochField(y1, y2, d1, d2, d3, half) ==
    [digits |-> <<y1, y2, d1, d2, d3>>, half |-> half]

\* int(tleepoch[0:2])
tleyear(f) == 10 * f.digits[1] + f.digits[2]

\* if tleyear < 57: year = 2000 + tleyear, else: year = 1900 + tleyear
EpochYear(f) == IF tleyear(f) < 57 THEN 2000 + tleyear(f) ELSE 1900 + tleyear(f)

\* float(tleepoch[2:]) in seconds of 1/86400 day.
DaySeconds == 24 * 60 * 60

day_of_year(f) ==
    (100 * f.digits[3] + 10 * f.digits[4] + f.digits[5]) * DaySeconds
        + f.half * (DaySeconds \div 2)

IsLeapYear(y) == (y % 4 = 0 /\ y % 100 # 0) \/ y % 400 = 0

\* The number of days of the first six months and of the whole year.
DaysToJuly(y) == IF IsLeapYear(y) THEN 182 ELSE 181

DaysOfYear(y) == IF IsLeapYear(y) THEN 366 ELSE 365

\* An instant of UTC: a year, a day of that year counted from 0 (days past
\* the year's last name days of the next year) and a second of that day;
\* second 86400 is the leap second 23:59:60.
Instant(year, day, sod) == [year |-> year, day |-> day, sod |-> sod]

\* models.py: datetime(year, 1, 1) + timedelta(day_of_year - 1): a datetime
\* has no leap seconds, every day has 86400 seconds.
models_epoch(f) ==
    Instant(EpochYear(f), (day_of_year(f) - DaySeconds) \div DaySeconds,
            (day_of_year(f) - DaySeconds) % DaySeconds)

\* The years whose 30 June and whose 31 December end with a leap second.
JuneLeapYears == {1972, 1981, 1982, 1983, 1985, 1992, 1993, 1994, 1997, 2012, 2015}

DecemberLeapYears ==
    {1972, 1973, 1974, 1975, 1976, 1977, 1978, 1979, 1987, 1989, 1990, 1995,
     1998, 2005, 2008, 2016}

\* The seconds elapsed since 1 January 00:00:00 UTC at which the leap
\* seconds of year y begin.
LeapStarts(y) ==
    (IF y \in JuneLeapYears THEN {DaysToJuly(y) * DaySeconds} ELSE {})
    \cup (IF y \in DecemberLeapYears
          THEN {DaysOfYear(y) * DaySeconds
                    + (IF y \in JuneLeapYears THEN 1 ELSE 0)}
          ELSE {})

\* The UTC instant that lies the given number of elapsed seconds after
\* 1 January 00:00:00 UTC of year y.
UtcAfter(y, elapsed) ==
    IF elapsed \in LeapStarts(y)
    THEN Instant(y, (elapsed - Cardinality({s \in LeapStarts(y) : s < elapsed}))
                        \div DaySeconds - 1, DaySeconds)
    ELSE Instant(y,
            (elapsed - Cardinality({s \in LeapStarts(y) : s < elapsed}))
                \div DaySeconds,
            (elapsed - Cardinality({s \in LeapStarts(y) : s < elapsed}))
                % DaySeconds)

\* schema.py: Time(f"{year}-01-01", scale="utc") + (day_of_year - 1) * u.day:
\* astropy adds a duration to a UTC time in TAI, as elapsed seconds.
schema_epoch(f) == UtcAfter(EpochYear(f), day_of_year(f) - DaySeconds)

\* The days of the year the epochs are drawn from, as digits.
EpochDays ==
    { <<0, 0, 1>>, <<1, 8, 1>>, <<1, 8, 2>>, <<1, 8, 3>>, <<2, 0, 0>>,
      <<3, 6, 5>>, <<3, 6, 6>>, <<3, 6, 7>> }

\* TLEEntry.epoch of both implementations for one TLE.
DecodeEpoch(f) ==
    /\ Idle
    /\ probe' = [ status |-> "epoch", field |-> f,
                  schema |-> schema_epoch(f), models |-> models_epoch(f) ]
    /\ UNCHANGED <<ephem, vis, saa, pointing, fov, cache, too>>

TleInit ==
    /\ ephem = NoEphem
    /\ vis = NewVis({})
    /\ saa = NoSAA
    /\ pointing = NoPointing
    /\ probe = NoProbe
    /\ fov = NoFOV
    /\ cache = NoCache
    /\ too = NoTOO

TleNext ==
    \E y1 \in 0..9, y2 \in 0..9, d \in EpochDays, half \in 0..1 :
        DecodeEpoch(EpochField(y1, y2, d[1], d[2], d[3], half))

SpecTle == TleInit /\ [][TleNext]_vars

\* C15: the two-digit year yy decodes to 2000 + yy below 57 and to 1900 + yy
\* otherwise, the epoch is 1 January of that year plus (day of year - 1)
\* days, and both implementations decode a TLE to the same instant.
C15_EpochDecoding ==
    probe.status = "epoch" =>
        /\ probe.models.year = (IF tleyear(probe.field) < 57 THEN 2000 ELSE 1900)
                                    + tleyear(probe.field)
        /\ probe.models.day * DaySeconds + probe.models.sod
                = day_of_year(probe.field) - DaySeconds
        /\ probe.schema = probe.models

\* -------------------------------------------------- visibility: validation

\* Ephemerides of the validation model: the Earth constraint is false or true
\* at the first instant and false or true at all the others.
QueryEphemerides ==
    { e \in Ephemerides :
        /\ \A k \in 1..EphLen : e.truth[k] \in { {}, {Earth} }
        /\ \A k \in 2..EphLen : e.truth[k] = e.truth[2] }

\* Positions <<ra, dec>> at and beyond the ends of the domains.
QueryCoords ==
    { <<0, 0 - 90>>, <<359, 90>>, <<0 - 1, 0>>, <<360, 0>>, <<0, 0 - 91>>,
      <<0, 91>> }

\* The grid instants of the ephemeris and one instant off the grid.
QueryInstants(e) ==
    { EphTimestamp(e, k) : k \in 0..(EphCount(e) - 1) } \cup { e.begin + QueryRes }

\* VisibilityBase.__init__(begin, end, ra, dec): the parameters are set,
\* entries is emptied, and get() runs if the parameters validate.
Query(ra, dec, b, en) ==
    /\ vis.status = "new"
    /\ vis' = IF VisibilityGetSchema([vis EXCEPT !.ra = ra, !.dec = dec,
                                                  !.begin = b, !.end = en])
              THEN get(ephem, [vis EXCEPT !.ra = ra, !.dec = dec,
                                          !.begin = b, !.end = en])
              ELSE [vis EXCEPT !.ra = ra, !.dec = dec, !.begin = b, !.end = en,
                               !.entries = << >>, !.status = "invalid"]
    /\ UNCHANGED <<ephem, saa, pointing, probe, fov, cache, too>>

\* The parameters of an object that has run a valid query are replaced and
\* get() is called again.
Requery(ra, dec, b, en) ==
    /\ vis.status \in {"ok", "IndexError"}
    /\ vis' = get(ephem, [vis EXCEPT !.ra = ra, !.dec = dec, !.begin = b, !.end = en])
    /\ UNCHANGED <<ephem, saa, pointing, probe, fov, cache, too>>

QueryInit ==
    /\ ephem \in QueryEphemerides
    /\ vis = NewVis({Earth, SAA})
    /\ saa = NoSAA
    /\ pointing = NoPointing
    /\ probe = NoProbe
    /\ fov = NoFOV
    /\ cache = NoCache
    /\ too = NoTOO

QueryNext ==
    \/ \E c \in QueryCoords, b \in QueryInstants(ephem),
          en \in QueryInstants(ephem) : Query(c[1], c[2], b, en)
    \/ \E c \in QueryCoords, b \in QueryInstants(ephem),
          en \in QueryInstants(ephem) : Requery(c[1], c[2], b, en)

SpecQuery == QueryInit /\ [][QueryNext]_vars

\* The query an object holds is invalid: its end is before its begin, or its
\* RA is outside [0, 360), or its Dec is outside [-90, 90].
InvalidQuery(o) ==
    \/ o.end < o.begin
    \/ o.ra < 0 \/ o.ra >= 360
    \/ o.dec < 0 - 90 \/ o.dec > 90

BurstCubePoints ==
    << <<3390, 0 - 3000>>, <<1240, 0 - 1988>>, <<0 - 910, 0 - 973>>,
       <<0 - 3060, 40>>, <<0 - 3840, 200>>, <<0 - 4500, 200>>,
       <<0 - 6500, 0 - 100>>, <<0 - 8400, 0 - 616>>, <<0 - 8920, 0 - 888>>,
       <<0 - 9430, 0 - 1422>>, <<0 - 9430, 0 - 1840>>, <<0 - 8449, 0 - 3185>>,
       <<0 - 8610, 0 - 3000>>, <<0 - 7235, 0 - 4399>>, <<0 - 5456, 0 - 5258>>,
       <<0 - 2819, 0 - 5363>>, <<0 - 21, 0 - 4689>>, <<2880, 0 - 3404>>,
       <<3390, 0 - 3000>> >>

\* The cross product (b - a) x (p - a): 0 when p is on the line through a, b.
Cross(a, b, p) == (b[1] - a[1]) * (p[2] - a[2]) - (p[1] - a[1]) * (b[2] - a[2])

\* p lies on the segment from a to b.
OnSegment(a, b, p) ==
    /\ Cross(a, b, p) = 0
    /\ Min(a[1], b[1]) <= p[1] /\ p[1] <= Max(a[1], b[1])
    /\ Min(a[2], b[2]) <= p[2] /\ p[2] <= Max(a[2], b[2])

\* The ray from p towards increasing longitude crosses the segment from a
\* to b (a segment is counted from its lower end up to, not including, its
\* upper end).
RayCrosses(a, b, p) ==
    /\ (a[2] > p[2]) # (b[2] > p[2])
    /\ IF b[2] > a[2] THEN Cross(a, b, p) > 0 ELSE Cross(a, b, p) < 0

\* shapely's Polygon.contains for a point: a point of the boundary is not
\* contained, any other point is contained if a ray from it crosses the ring
\* an odd number of times.
Contains(ring, p) ==
    /\ \A i \in 1..(Len(ring) - 1) : ~OnSegment(ring[i], ring[i + 1], p)
    /\ Cardinality({ i \in 1..(Len(ring) - 1) :
                        RayCrosses(ring[i], ring[i + 1], p) }) % 2 = 1

\* polygon.contains(points(a, b)) with the coordinates given as <<b, a>>.
contains_points_swapped(ring, longitude, latitude) ==
    [ k \in 1..Len(longitude) |-> Contains(ring, <<latitude[k], longitude[k]>>) ]

\* polygon.contains(points(ephem.longitude[i], ephem.latitude[i]))
contains_points(ring, longitude, latitude) ==
    [ k \in 1..Len(longitude) |-> Contains(ring, <<longitude[k], latitude[k]>>) ]

\* return inconstraint[0] if time.isscalar else inconstraint
SaaReturn(time, inconstraint) ==
    IF time.isscalar
    THEN IF inconstraint = << >>
         THEN [err |-> "IndexError", isscalar |-> TRUE, val |-> << >>]
         ELSE [err |-> "none", isscalar |-> TRUE, val |-> <<inconstraint[1]>>]
    ELSE [err |-> "none", isscalar |-> FALSE, val |-> inconstraint]

\* The part of SAAPolygonConstraint.__call__ after i = getslice(time, ephem).
SaaSliced(ring, time, e, sl) ==
    IF sl.err # "none"
    THEN [err |-> sl.err, isscalar |-> time.isscalar, val |-> << >>]
    ELSE SaaReturn(time,
            contains_points(ring, ClipSlice(e.longitude, sl),
                            ClipSlice(e.latitude, sl)))

\* SAAPolygonConstraint.__call__(time, ephem) for the polygon ring.
SAAPolygonConstraint(ring, time, e) == SaaSliced(ring, time, e, getslice(time, e))

\* The sub-satellite points the ground tracks are made of, in degrees.
TrackLons == { 0 - 100, 0 - 90, 0 - 86, 0 - 85, 0 - 60, 0 - 40, 0 - 10, 0, 20, 34, 40 }

TrackLats == { 0 - 60, 0 - 50, 0 - 40, 0 - 30, 0 - 20, 0 - 10, 0, 2, 10 }

\* Ground tracks: the sub-satellite point moves from its first point by 10
\* degrees of longitude and 5 degrees of latitude per instant.
SaaTracks ==
    { [ begin |-> EphOffset * StepSize, stepsize |-> StepSize,
        truth |-> [k \in 1..EphLen |-> {}],
        longitude |-> [k \in 1..EphLen |-> 100 * (lon + 10 * (k - 1))],
        latitude |-> [k \in 1..EphLen |-> 100 * (lat + 5 * (k - 1))] ] :
        lon \in TrackLons, lat \in TrackLats }

\* One evaluation of the BurstCube SAA predicate.
InSaa(time) ==
    /\ Idle
    /\ probe' = [ status |-> "insaa", time |-> time,
                  result |-> SAAPolygonConstraint(BurstCubePoints, time, ephem) ]
    /\ UNCHANGED <<ephem, vis, saa, pointing, fov, cache, too>>

PolyInit ==
    /\ ephem \in SaaTracks
    /\ vis = NewVis({SAA})
    /\ saa = NoSAA
    /\ pointing = NoPointing
    /\ probe = NoProbe
    /\ fov = NoFOV
    /\ cache = NoCache
    /\ too = NoTOO

PolyNext ==
    \/ \E t \in ProbeTimes(ephem) : InSaa(ScalarTime(t))
    \/ \E ts \in ProbeArrays(ephem) : InSaa(ArrayTime(ts))

SpecPoly == PolyInit /\ [][PolyNext]_vars

\* ---------------------------------------------------- SAA polygon: claims

\* The line of constant longitude through p, taken from p towards the north
\* pole, crosses the segment from a to b.
NorthCrosses(a, b, p) ==
    /\ (a[1] > p[1]) # (b[1] > p[1])
    /\ IF b[1] > a[1] THEN Cross(a, b, p) < 0 ELSE Cross(a, b, p) > 0

\* The point p lies inside the BurstCube SAA polygon: not on its outline, and
\* an odd number of its sides pass north of p.
InsideSaa(p) ==
    /\ \A i \in 1..(Len(BurstCubePoints) - 1) :
            ~OnSegment(BurstCubePoints[i], BurstCubePoints[i + 1], p)
    /\ Cardinality({ i \in 1..(Len(BurstCubePoints) - 1) :
            NorthCrosses(BurstCubePoints[i], BurstCubePoints[i + 1], p) }) % 2 = 1

\* The sub-satellite point at the ephemeris index k (from 0).
SubPoint(k) == <<ephem.longitude[k + 1], ephem.latitude[k + 1]>>

\* The predicate returned, for every instant it was asked about, whether the
\* sub-satellite point is inside the polygon.
InsideExactly ==
    (probe.status = "insaa" /\ probe.result.err = "none") =>
        \A j \in 1..Len(probe.result.val) :
            probe.result.val[j]
                = InsideSaa(SubPoint(ephindex(ephem, probe.time.ts[1]) + j - 1))

\* The value the predicate returned for a scalar instant at which the
\* sub-satellite point is p, if that is what the last call was about.
ReturnedAt(p, v) ==
    ( /\ probe.status = "insaa"
      /\ probe.time.isscalar
      /\ probe.result.err = "none"
      /\ SubPoint(ephindex(ephem, probe.time.ts[1])) = p )
    => probe.result.val[1] = v

\* C17 as stated: the SAA predicate is true exactly when the sub-satellite
\* point lies inside the polygon, and for the BurstCube polygon it is False
\* at (0 deg, -40 deg) and True at (0 deg, -10 deg).
C17_SaaInsidePolygon ==
    /\ InsideExactly
    /\ ReturnedAt(<<0, 0 - 4000>>, FALSE)
    /\ ReturnedAt(<<0, 0 - 1000>>, TRUE)

\* C17 amended: the SAA predicate is true exactly when the sub-satellite
\* point lies inside the polygon, and for the BurstCube polygon it is True
\* at (0 deg, -40 deg) and False at (0 deg, -10 deg).
C17_SaaInsidePolygonAmended ==
    /\ InsideExactly
    /\ ReturnedAt(<<0, 0 - 4000>>, TRUE)
    /\ ReturnedAt(<<0, 0 - 1000>>, FALSE)

\* The predicate was asked about the instant at which the sub-satellite
\* point is (0 deg, -40 deg) and returned True.
C17_Witness ==
    /\ probe.status = "insaa"
    /\ probe.time.isscalar
    /\ probe.result.err = "none"
    /\ SubPoint(ephindex(ephem, probe.time.ts[1])) = <<0, 0 - 4000>>
    /\ probe.result.val = <<TRUE>>

\* -------------------------------------------------------------- orbit pole

\* pole_dist < pole_cons or pole_dist > 360 deg - pole_cons, element by
\* element; angles in degrees.
PoleMask(pole_dist, pole_cons) ==
    [ k \in 1..Len(pole_dist) |->
        pole_dist[k] < pole_cons[k] \/ pole_dist[k] > 360 - pole_cons[k] ]

\* pole_cons = earthsize + (earthoccult - 90 deg) [+ extra]
PoleSize(earthsize, earthoccult, extra) ==
    [ k \in 1..Len(earthsize) |-> earthsize[k] + (earthoccult - 90) + extra ]

\* return inconstraint[0] if time.isscalar else inconstraint
PoleReturn(time, inconstraint) ==
    IF time.isscalar
    THEN IF inconstraint = << >>
         THEN [err |-> "IndexError", isscalar |-> TRUE, val |-> << >>]
         ELSE [err |-> "none", isscalar |-> TRUE, val |-> <<inconstraint[1]>>]
    ELSE [err |-> "none", isscalar |-> FALSE, val |-> inconstraint]

\* The part of PoleConstraint.__call__ after i = getslice(time, ephem);
\* e.pole_dist[k] is the separation of the orbit pole (posvec x velvec) at
\* index k from the coordinate.
PoleSliced(earthoccult, time, e, sl) ==
    IF sl.err # "none"
    THEN [err |-> sl.err, isscalar |-> time.isscalar, val |-> << >>]
    ELSE PoleReturn(time,
            PoleMask(ClipSlice(e.pole_dist, sl),
                     PoleSize(ClipSlice(e.earthsize, sl), earthoccult, 0)))

\* PoleConstraint.__call__(coord, time, ephem)
PoleConstraint(earthoccult, time, e) ==
    PoleSliced(earthoccult, time, e, getslice(time, e))

\* VisibilityBase.inpolecons over [ephstart:ephstop]; earthextra is added
\* unless the object is for the satellite itself (isat).
inpolecons(e, ephstart, ephstop, earthoccult, earthextra, isat) ==
    [ err |-> "none", isscalar |-> FALSE,
      val |-> PoleMask(PySlice(e.pole_dist, ephstart, ephstop),
                PoleSize(PySlice(e.earthsize, ephstart, ephstop), earthoccult,
                         IF isat THEN 0 ELSE earthextra)) ]

\* Separations of a target from the orbit pole, in degrees.
PoleDists == { 0, 5, 15, 90, 165, 175, 180 }

\* Ephemerides of the pole model: the Earth's angular radius is constant, the
\* target's separation from the orbit pole alternates between d and 180 - d.
PoleEphemerides ==
    { [ begin |-> EphOffset * StepSize, stepsize |-> StepSize,
        truth |-> [k \in 1..EphLen |-> {}],
        earthsize |-> [k \in 1..EphLen |-> size],
        pole_dist |-> [k \in 1..EphLen |-> IF k % 2 = 1 THEN d ELSE 180 - d] ] :
        size \in {60, 70}, d \in PoleDists }

\* Earth limb avoidance angles, in degrees.
EarthOccults == {28, 45}

EvaluatePole(earthoccult, time) ==
    /\ Idle
    /\ probe' = [ status |-> "pole", time |-> time, first |-> 0,
                  size |-> PoleSize(ephem.earthsize, earthoccult, 0),
                  result |-> PoleConstraint(earthoccult, time, ephem) ]
    /\ UNCHANGED <<ephem, vis, saa, pointing, fov, cache, too>>

EvaluateInpolecons(earthoccult, earthextra, isat, ephstart, ephstop) ==
    /\ Idle
    /\ probe' = [ status |-> "pole", time |-> ArrayTime(<< >>), first |-> ephstart,
                  size |-> PoleSize(ephem.earthsize, earthoccult,
                                    IF isat THEN 0 ELSE earthextra),
                  result |-> inpolecons(ephem, ephstart, ephstop, earthoccult,
                                        earthextra, isat) ]
    /\ UNCHANGED <<ephem, vis, saa, pointing, fov, cache, too>>

PoleInit ==
    /\ ephem \in PoleEphemerides
    /\ vis = NewVis({Pole})
    /\ saa = NoSAA
    /\ pointing = NoPointing
    /\ probe = NoProbe
    /\ fov = NoFOV
    /\ cache = NoCache
    /\ too = NoTOO

PoleNext ==
    \/ \E occ \in EarthOccults, t \in ProbeTimes(ephem) :
          EvaluatePole(occ, ScalarTime(t))
    \/ \E occ \in EarthOccults, ts \in ProbeArrays(ephem) :
          EvaluatePole(occ, ArrayTime(ts))
    \/ \E occ \in EarthOccults, extra \in {0, 10}, isat \in BOOLEAN,
          a \in 0..EphLen, b \in 0..EphLen :
          a <= b /\ EvaluateInpolecons(occ, extra, isat, a, b)

SpecPole == PoleInit /\ [][PoleNext]_vars

\* The ephemeris index (from 0) of element j (from 1) of the last result.
PoleIndex(j) ==
    (IF probe.time.ts = << >> THEN probe.first
     ELSE ephindex(ephem, probe.time.ts[1])) + j - 1

\* C18: the orbit-pole predicate is true at an instant exactly when the
\* target's distance from the orbit pole, or from its antipode (180 degrees
\* minus that distance), is less than the pole-constraint size.
C18_EitherPole ==
    (probe.status = "pole" /\ probe.result.err = "none") =>
        \A j \in 1..Len(probe.result.val) :
            probe.result.val[j]
                = ( \/ ephem.pole_dist[PoleIndex(j) + 1] < probe.size[PoleIndex(j) + 1]
                    \/ 180 - ephem.pole_dist[PoleIndex(j) + 1]
                            < probe.size[PoleIndex(j) + 1] )

\* --------------------------------------------------------- ephemeris cache

\* @cached(cache=TTLCache(maxsize=1024, ttl=86400)) on a mission's Ephem
\* class; time is counted in seconds.
EphemTtl == 86400

\* @cached(cache=TTLCache(maxsize=128, ttl=3600)) on a mission's TLE class.
TleTtl == 3600

\* The number of times the clock is advanced, and the number of times the
\* feed of orbital elements is refreshed.
MaxTicks == 2

MaxFeed == 1

\* The requests that may be in progress at once.
Requests == {"r1", "r2"}

\* The constructor arguments (begin, end, stepsize) requests are made with.
ArgsSet == { <<0, EphemTtl, 60>>, <<0, EphemTtl, 30>> }

\* cachetools.keys.hashkey without an argument: the key leaves the step out.
hashkey_nostep(args) == <<args[1], args[2]>>

\* cachetools.keys.hashkey(*args): the key of a call is its arguments.
hashkey(args) == args

CacheKeys == { hashkey(args) : args \in ArgsSet }

\* An entry of a TTLCache, and the absence of one.
Entry(value, stored, ttl) ==
    [present |-> TRUE, value |-> value, stored |-> stored, expires |-> stored + ttl]

NoEntry == [present |-> FALSE, value |-> NoVal, stored |-> NoVal, expires |-> NoVal]

\* TTLCache.__getitem__: an entry is served while timer() < expires.
Live(entry, now) == entry.present /\ now < entry.expires

\* EphemBase.get() for the arguments and the orbital elements tle: the
\* ephemeris is a function of the elements and of the time grid.
EphemOf(args, tle) ==
    [ begin |-> args[1], end |-> args[2], stepsize |-> args[3], tle |-> tle,
      count |-> (args[2] - args[1]) \div args[3] + 1 ]

\* TLE(begin).tle: the memoised elements while they are live, else the
\* elements of the feed.
TleOf(c) == IF Live(c.tle, c.now) THEN c.tle.value ELSE c.feed

\* The TLE cache after TLE(begin).
TleAfter(c) == IF Live(c.tle, c.now) THEN c.tle ELSE Entry(c.feed, c.now, TleTtl)

NewRequest == [pc |-> "idle", args |-> << >>, value |-> NoVal]

NewCache ==
    [ now |-> 0, ticks |-> 0, feed |-> 0, tle |-> NoEntry,
      store |-> [k \in CacheKeys |-> NoEntry],
      req |-> [r \in Requests |-> NewRequest],
      results |-> {}, age |-> 0 ]

\* What a request obtained: its arguments and the ephemeris.
Result(args, value) == [args |-> args, value |-> value]

\* A caller constructs Ephem(begin, end, stepsize) and cached() finds the
\* key: try: return cache[k]. age records how long ago the entry that was
\* served had been stored.
LookupHit(r, args) ==
    /\ cache.status = "running"
    /\ cache.c.req[r].pc = "idle"
    /\ Live(cache.c.store[hashkey(args)], cache.c.now)
    /\ cache' = [cache EXCEPT
          !.c.age = cache.c.now - cache.c.store[hashkey(args)].stored,
          !.c.results = @ \cup
              { Result(args, cache.c.store[hashkey(args)].value) } ]
    /\ UNCHANGED <<ephem, vis, saa, pointing, probe, fov, too>>

\* A caller constructs Ephem(begin, end, stepsize) and cached() does not
\* find the key: except KeyError: pass
LookupMiss(r, args) ==
    /\ cache.status = "running"
    /\ cache.c.req[r].pc = "idle"
    /\ ~Live(cache.c.store[hashkey(args)], cache.c.now)
    /\ cache' = [cache EXCEPT !.c.req[r] = [pc |-> "construct", args |-> args,
                                             value |-> NoVal]]
    /\ UNCHANGED <<ephem, vis, saa, pointing, probe, fov, too>>

\* cached(): v = func(*args): Ephem.__init__ takes TLE(begin).tle and
\* computes the ephemeris.
Construct(r) ==
    /\ cache.status = "running"
    /\ cache.c.req[r].pc = "construct"
    /\ cache' = [cache EXCEPT
          !.c.tle = TleAfter(cache.c),
          !.c.req[r].value = EphemOf(cache.c.req[r].args, TleOf(cache.c)),
          !.c.req[r].pc = "store" ]
    /\ UNCHANGED <<ephem, vis, saa, pointing, probe, fov, too>>

\* cached(): cache[k] = v; return v
Store(r) ==
    /\ cache.status = "running"
    /\ cache.c.req[r].pc = "store"
    /\ cache' = [cache EXCEPT
          !.c.store[hashkey(cache.c.req[r].args)] =
              Entry(cache.c.req[r].value, cache.c.now, EphemTtl),
          !.c.req[r] = NewRequest,
          !.c.results = @ \cup { Result(cache.c.req[r].args, cache.c.req[r].value) } ]
    /\ UNCHANGED <<ephem, vis, saa, pointing, probe, fov, too>>

\* The clock advances by d seconds.
Tick(d) ==
    /\ cache.status = "running"
    /\ cache.c.ticks < MaxTicks
    /\ cache' = [cache EXCEPT !.c.now = @ + d, !.c.ticks = @ + 1]
    /\ UNCHANGED <<ephem, vis, saa, pointing, probe, fov, too>>

\* The feed publishes new orbital elements for the mission.
FeedRefresh ==
    /\ cache.status = "running"
    /\ cache.c.feed < MaxFeed
    /\ cache' = [cache EXCEPT !.c.feed = @ + 1]
    /\ UNCHANGED <<ephem, vis, saa, pointing, probe, fov, too>>

CacheInit ==
    /\ ephem = NoEphem
    /\ vis = NewVis({})
    /\ saa = NoSAA
    /\ pointing = NoPointing
    /\ probe = NoProbe
    /\ fov = NoFOV
    /\ cache = [status |-> "running", c |-> NewCache]
    /\ too = NoTOO

CacheNext ==
    \/ \E r \in Requests, args \in ArgsSet : LookupHit(r, args)
    \/ \E r \in Requests, args \in ArgsSet : LookupMiss(r, args)
    \/ \E r \in Requests : Construct(r)
    \/ \E r \in Requests : Store(r)
    \/ \E d \in {TleTtl, EphemTtl - TleTtl} : Tick(d)
    \/ FeedRefresh

SpecCache == CacheInit /\ [][CacheNext]_vars

\* ------------------------------------------------- ephemeris cache: claims

\* Every request obtained an ephemeris of the time grid it asked for, and
\* the last entry served from the cache was younger than the time-to-live.
ServedRightAndFresh ==
    /\ cache.c.age < EphemTtl
    /\ \A p \in cache.c.results :
            /\ p.value.begin = p.args[1]
            /\ p.value.end = p.args[2]
            /\ p.value.stepsize = p.args[3]

TooOldHours == 48

\* Time is counted in seconds.
HourSeconds == 60 * 60

TooOld == TooOldHours * HourSeconds

\* How many hours the clock runs on after the first instant.
MaxWait == 1

\* The first instant of the clock: late enough for a trigger to be too old.
FirstHour == TooOld + HourSeconds

\* The trigger times requests are made with: more than 48 hours and exactly
\* 48 hours before the first instant, and one that is still in the future
\* at the last instant.
TriggerTimes == {0, HourSeconds, FirstHour + (MaxWait + 1) * HourSeconds}

\* __init__: self.exposure = 200, self.offset = -50.
DefaultExposure == 200

DefaultOffset == 0 - 50

\* The offset and right ascension requests are made with: the default
\* offset and no position, or no offset and a position.
Kinds == { <<DefaultOffset, NoVal>>, <<0, 10>> }

\* How many requests are posted.
MaxPosts == 2

\* healpix_minprob = 0.01, in percent.
MinProbPercent == 100 \div 100

\* The users of the API.
Owner == "testuser"

Users == {Owner, "guest"}

\* An attribute the object does not have.
Unset == "unset"

\* TOOReason and TOOStatus, by value.
TOOReason ==
    [ saa |-> "In SAA", earth_occult |-> "Earth occulted", too_old |-> "Too old",
      other |-> "Other", none |-> "None" ]

TOOStatus ==
    [ requested |-> "Requested", rejected |-> "Rejected", approved |-> "Approved",
      deleted |-> "Deleted" ]

\* BurstCubeTOO.__init__: id, timestamp, begin, end and the position are
\* None unless given, too_info is empty, there are no warnings, exposure and
\* offset have their defaults, and neither reason, reject_reason nor status
\* is assigned.
BurstCubeTOO(username, id, trigger_time, offset, ra) ==
    [ id |-> id, username |-> username, timestamp |-> NoVal,
      trigger_time |-> trigger_time, trigger_mission |-> "BurstCube",
      ra |-> ra, begin |-> NoVal, end |-> NoVal,
      exposure |-> DefaultExposure, offset |-> offset,
      reason |-> Unset, reject_reason |-> Unset,
      status |-> Unset, too_status |-> Unset, too_info |-> << >>,
      warnings |-> << >> ]

\* The names under which BurstCubeTOOModelSchema may carry the reason and
\* the status of a request: those of the class, of BurstCubeTOOSchema, or
\* of BurstCubeTOOModel.
ModelSchemas ==
    [ reason : {"reason", "reject_reason"}, status : {"status", "too_status"} ]

\* post: the dump window, when begin or end is None: begin =
\* round_time(trigger_time, 1) - (exposure + offset), end = begin + exposure.
Windowed(o) ==
    IF o.begin = NoVal \/ o.end = NoVal
    THEN [o EXCEPT
            !.begin = round_time(o.trigger_time, 1) - (o.exposure + o.offset),
            !.end = round_time(o.trigger_time, 1) - (o.exposure + o.offset)
                        + o.exposure]
    ELSE o

\* check_for_previous_toos: the scan filters on the attribute "epoch"
\* lying within a second of the trigger time.
ScanEpoch(table, trigger_time) ==
    { item \in table : /\ "epoch" \in DOMAIN item
                       /\ item.epoch >= trigger_time - 1
                       /\ item.epoch <= trigger_time + 1 }

\* check_for_previous_toos: the found items it deletes: those without a
\* position when the new request has one, and those with more exposure
\* (a trigger time in whole seconds is never the more accurate one).
Superseded(table, o) ==
    { item \in ScanEpoch(table, o.trigger_time) :
        \/ item.ra = NoVal /\ o.ra # NoVal
        \/ item.exposure > o.exposure }

\* check_for_previous_toos: a previous request matches unless every found
\* item was deleted.
check_for_previous_toos(table, o) ==
    Superseded(table, o) # ScanEpoch(table, o.trigger_time)

\* check_constraints: the object after the call; the call returned False
\* exactly when status is rejected. insaa is the SAA predicate at the
\* trigger time, prob the in-FOV probability (infov.infov) in percent.
check_constraints(o, now, insaa, prob) ==
    IF o.trigger_time > now
    THEN [o EXCEPT !.warnings = Append(@, "Trigger time is in the future."),
                   !.reason = TOOReason.other,
                   !.status = TOOStatus.rejected]
    ELSE IF o.trigger_time < now - TooOld
    THEN [o EXCEPT !.reason = TOOReason.too_old,
                   !.warnings = Append(@, "Trigger is too old."),
                   !.status = TOOStatus.rejected]
    ELSE IF insaa
    THEN [o EXCEPT !.warnings = Append(@, "Trigger time inside SAA."),
                   !.reason = TOOReason.saa,
                   !.status = TOOStatus.rejected]
    ELSE IF o.ra # NoVal /\ prob < MinProbPercent
    THEN [o EXCEPT !.warnings = Append(@, "Trigger was occulted at T0."),
                   !.reason = TOOReason.earth_occult,
                   !.status = TOOStatus.rejected]
    ELSE IF o.ra # NoVal
    THEN [o EXCEPT !.warnings = Append(@, "Probability inside FOV.")]
    ELSE o

\* post: if not self.check_constraints(): one more warning.
Warned(o) ==
    IF o.status = TOOStatus.rejected
    THEN [o EXCEPT !.warnings = Append(@,
            "TOO request was recorded, but rejected due to a constraint.")]
    ELSE o

\* post: too_info = too_info + " ".join(warnings); timestamp = utcnow().
Compiled(o, now) == [o EXCEPT !.too_info = @ \o o.warnings, !.timestamp = now]

\* model_validate(self): a field is read from the attribute of its name,
\* and takes its default when the object has no such attribute.
FromAttribute(o, name, default) == IF o[name] = Unset THEN default ELSE o[name]

\* The fields BurstCubeTOOModelSchema shares with the class and the model.
CarriedFields ==
    { "username", "too_info", "trigger_time", "trigger_mission", "timestamp",
      "ra", "begin", "end", "exposure", "offset" }

\* BurstCubeTOOModelSchema.model_validate(self).model_dump(mode="json").
model_dump(schema, o) ==
    [ name \in CarriedFields \cup {schema.reason, schema.status} |->
        IF name = schema.reason THEN FromAttribute(o, name, TOOReason.none)
        ELSE IF name = schema.status THEN FromAttribute(o, name, TOOStatus.requested)
        ELSE o[name] ]

\* A field of BurstCubeTOOModel(**dump): the keyword of its name, else its
\* default; other keywords are ignored.
Keyword(dump, name, default) == IF name \in DOMAIN dump THEN dump[name] ELSE default

\* BurstCubeTOOModel.id: the md5 digest of trigger time and trigger
\* mission, modelled by the pair.
TOOId(trigger_time, trigger_mission) == <<trigger_time, trigger_mission>>

\* BurstCubeTOOModel(**dump), with its computed id.
BurstCubeTOOModel(dump) ==
    [ id |-> TOOId(dump.trigger_time, dump.trigger_mission),
      username |-> dump.username,
      trigger_time |-> dump.trigger_time,
      trigger_mission |-> dump.trigger_mission,
      timestamp |-> dump.timestamp,
      ra |-> dump.ra, begin |-> dump.begin, end |-> dump.end,
      exposure |-> dump.exposure, offset |-> dump.offset,
      reason |-> Keyword(dump, "reason", TOOReason.none),
      too_status |-> Keyword(dump, "too_status", TOOStatus.requested),
      too_info |-> dump.too_info ]

\* DynamoDBBase.save: put_item replaces the item of the same id.
save(table, item) == { i \in table : i.id # item.id } \cup {item}

\* No HTTPException, and HTTPException(code, detail).
NoHTTP == [code |-> 0, detail |-> ""]

HTTPException(code, detail) == [code |-> code, detail |-> detail]

\* The state of the table "burstcube_too" and of the client's object:
\* before is the table as the last call found it, returned the call's
\* return value, http the exception it raised, insaa and prob what the
\* SAA and the field-of-view check of the last post found, user the user
\* the object was made for, and after the state in which the last get was
\* called.
NewTOOState(schema) ==
    [ status |-> "idle", schema |-> schema, now |-> FirstHour, table |-> {},
      before |-> {}, posts |-> 0, o |-> BurstCubeTOO(Owner, Unset, 0, DefaultOffset, NoVal),
      returned |-> Unset, http |-> NoHTTP, insaa |-> FALSE, prob |-> 0,
      user |-> Owner, after |-> "idle" ]

\* A client makes a BurstCubeTOO for a trigger.
MakeTOO(trigger_time, offset, ra) ==
    /\ too.status \in {"idle", "posted", "refused"}
    /\ too.posts < MaxPosts
    /\ too' = [too EXCEPT
          !.status = "made",
          !.o = BurstCubeTOO(Owner, Unset, trigger_time, offset, ra),
          !.returned = Unset, !.http = NoHTTP, !.before = too.table,
          !.user = Owner, !.insaa = FALSE, !.prob = 0]
    /\ UNCHANGED <<ephem, vis, saa, pointing, probe, fov, cache>>

\* The object after post's window, constraint check and compilation of
\* too_info.
Checked(insaa, prob) ==
    Compiled(Warned(check_constraints(Windowed(too.o), too.now, insaa, prob)),
             too.now)

\* The table after check_for_previous_toos.
Scanned == too.table \ Superseded(too.table, Windowed(too.o))

\* BurstCubeTOO.post for a valid, authorised request: when a previous
\* request matches, HTTPException(200, "TOO already submitted"); otherwise
\* the constraints are checked, the request is saved, the object takes the
\* id of the item, and post returns True.
Post(insaa, prob) ==
    /\ too.status = "made"
    /\ too.posts < MaxPosts
    /\ too' =
          IF check_for_previous_toos(too.table, Windowed(too.o))
          THEN [too EXCEPT !.status = "refused", !.before = too.table,
                           !.table = Scanned, !.o = Windowed(too.o),
                           !.http = HTTPException(200, "TOO already submitted")]
          ELSE [too EXCEPT
                  !.status = "posted",
                  !.posts = @ + 1,
                  !.insaa = insaa,
                  !.prob = prob,
                  !.before = too.table,
                  !.table = save(Scanned,
                                 BurstCubeTOOModel(model_dump(too.schema,
                                                              Checked(insaa, prob)))),
                  !.o = [Checked(insaa, prob) EXCEPT
                           !.id = BurstCubeTOOModel(
                                      model_dump(too.schema,
                                                 Checked(insaa, prob))).id],
                  !.returned = TRUE ]
    /\ UNCHANGED <<ephem, vis, saa, pointing, probe, fov, cache>>

\* A client makes a BurstCubeTOO for the id of a request.
MakeRef(user, id) ==
    /\ too.status \notin {"idle", "made"}
    /\ too' = [too EXCEPT
          !.status = "ref",
          !.o = BurstCubeTOO(user, id, NoVal, DefaultOffset, NoVal),
          !.returned = Unset, !.http = NoHTTP, !.before = too.table,
          !.user = user, !.insaa = FALSE, !.prob = 0, !.after = "idle"]
    /\ UNCHANGED <<ephem, vis, saa, pointing, probe, fov, cache>>

\* table.get_item(Key={"id": id}): the items of the id.
get_item(table, id) == { item \in table : item.id = id }

\* get: for k, v in too: setattr(self, k, v), where too is the item
\* validated by BurstCubeTOOModelSchema: a field the item lacks takes its
\* default.
Fetched(schema, o, item) ==
    [ [o EXCEPT !.username = item.username, !.timestamp = item.timestamp,
                !.trigger_time = item.trigger_time,
                !.trigger_mission = item.trigger_mission,
                !.ra = item.ra, !.begin = item.begin, !.end = item.end,
                !.exposure = item.exposure, !.offset = item.offset,
                !.too_info = item.too_info ]
      EXCEPT ![schema.reason] = Keyword(item, schema.reason, TOOReason.none),
             ![schema.status] = Keyword(item, schema.status, TOOStatus.requested) ]

\* BurstCubeTOO.get for an authorised user: HTTPException(404) when the
\* table has no item of the id, else the object takes the item's fields
\* and get returns True.
Get ==
    /\ too.status \in {"ref", "deleted", "put"}
    /\ too' =
          IF get_item(too.table, too.o.id) = {}
          THEN [too EXCEPT !.status = "notfound", !.before = too.table,
                           !.after = too.status,
                           !.returned = Unset,
                           !.http = HTTPException(404, "BurstCubeTOO not found.")]
          ELSE [too EXCEPT
                  !.status = "got", !.before = too.table,
                  !.after = too.status,
                  !.o = Fetched(too.schema, too.o,
                                CHOOSE item \in get_item(too.table, too.o.id) : TRUE),
                  !.returned = TRUE, !.http = NoHTTP]
    /\ UNCHANGED <<ephem, vis, saa, pointing, probe, fov, cache>>

\* The client sets the status of the object it fetched.
SetStatus(status) ==
    /\ too.status = "got"
    /\ too' = [too EXCEPT !.status = "changed", !.o.status = status]
    /\ UNCHANGED <<ephem, vis, saa, pointing, probe, fov, cache>>

\* BurstCubeTOO.delete for a valid request: get() raises 404 or fetches
\* the item; 401 when the item's username is not the caller's; else
\* delete_item removes the item and delete returns True.
Delete ==
    /\ too.status \in {"ref", "got", "changed"}
    /\ too' =
          IF get_item(too.table, too.o.id) = {}
          THEN [too EXCEPT !.status = "failed", !.before = too.table,
                           !.returned = Unset,
                           !.http = HTTPException(404, "BurstCubeTOO not found.")]
          ELSE IF Fetched(too.schema, too.o,
                          CHOOSE item \in get_item(too.table, too.o.id) : TRUE).username
                    # too.o.username
          THEN [too EXCEPT
                  !.status = "failed", !.before = too.table,
                  !.o = Fetched(too.schema, too.o,
                                CHOOSE item \in get_item(too.table, too.o.id) : TRUE),
                  !.returned = Unset,
                  !.http = HTTPException(401, "BurstCubeTOO not owned by user.")]
          ELSE [too EXCEPT
                  !.status = "deleted", !.before = too.table,
                  !.table = @ \ get_item(too.table, too.o.id),
                  !.o = Fetched(too.schema, too.o,
                                CHOOSE item \in get_item(too.table, too.o.id) : TRUE),
                  !.returned = TRUE, !.http = NoHTTP]
    /\ UNCHANGED <<ephem, vis, saa, pointing, probe, fov, cache>>

\* BurstCubeTOO.put for a valid request with an id: delete_item removes
\* the item of the id; its response holds no "Item", so put raises
\* HTTPException(404).
Put ==
    /\ too.status \in {"ref", "got", "changed"}
    /\ too' = [too EXCEPT
          !.status = "put", !.before = too.table,
          !.table = @ \ get_item(too.table, too.o.id),
          !.returned = Unset,
          !.http = HTTPException(404, "BurstCubeTOO not found.")]
    /\ UNCHANGED <<ephem, vis, saa, pointing, probe, fov, cache>>

\* An hour passes.
Hour ==
    /\ too.now < FirstHour + MaxWait * HourSeconds
    /\ too' = [too EXCEPT !.now = @ + HourSeconds]
    /\ UNCHANGED <<ephem, vis, saa, pointing, probe, fov, cache>>

TooInit ==
    /\ ephem = NoEphem
    /\ vis = NewVis({})
    /\ saa = NoSAA
    /\ pointing = NoPointing
    /\ probe = NoProbe
    /\ fov = NoFOV
    /\ cache = NoCache
    /\ \E schema \in ModelSchemas : too = NewTOOState(schema)

TooNext ==
    \/ \E t \in TriggerTimes, k \in Kinds : MakeTOO(t, k[1], k[2])
    \/ \E insaa \in BOOLEAN, prob \in {0, 100} :
          (too.o.ra # NoVal \/ prob = 0) /\ Post(insaa, prob)
    \/ \E user \in Users, t \in TriggerTimes : MakeRef(user, TOOId(t, "BurstCube"))
    \/ Get
    \/ \E status \in {TOOStatus.approved} : SetStatus(status)
    \/ Delete
    \/ Put
    \/ Hour

SpecToo == TooInit /\ [][TooNext]_vars

\* The stored request of the object that was posted.
Stored == { item \in too.table : item.id = too.o.id }

\* The trigger of the posted object was more than 48 hours before the post.
PostedOld ==
    /\ too.status = "posted"
    /\ too.o.timestamp - too.o.trigger_time > TooOld

InSeq(x, s) == \E k \in 1..Len(s) : s[k] = x

\* C20: a TOO whose trigger time is more than 48 hours before the time of
\* the post is still recorded: post returns True and assigns an id, and the
\* stored request has status "Rejected", reject reason "Too old" and a
\* too_info containing "Trigger is too old.".
C20_OldTriggerRecordedRejected ==
    PostedOld =>
        /\ too.returned = TRUE
        /\ too.o.id # Unset
        /\ Stored # {}
        /\ \A item \in Stored :
              /\ item.too_status = "Rejected"
              /\ item.reason = "Too old"
              /\ InSeq("Trigger is too old.", item.too_info)

\* The table held a request of the same trigger time and trigger mission
\* when post was called.
AlreadyPosted ==
    /\ too.status \in {"posted", "refused"}
    /\ \E item \in too.before :
          item.id = TOOId(too.o.trigger_time, too.o.trigger_mission)

\* C21: posting a TOO that has already been posted (same trigger time and
\* trigger mission) is refused with an HTTP error of status code 409 and
\* detail "BurstCubeTOO already exists.", and does not create a second
\* stored request.
C21_DoublePostRefused ==
    AlreadyPosted =>
        /\ too.status = "refused"
        /\ too.http = HTTPException(409, "BurstCubeTOO already exists.")
        /\ Cardinality(too.table) = Cardinality(too.before)


\* The reason of the first failing check of the last post, in the order
\* future, too old, SAA, Earth-occulted.
FirstFailing ==
    IF too.o.trigger_time > too.o.timestamp THEN "Other"
    ELSE IF too.o.timestamp - too.o.trigger_time > TooOld THEN "Too old"
    ELSE IF too.insaa THEN "In SAA"
    ELSE IF too.o.ra # NoVal /\ too.prob < MinProbPercent THEN "Earth occulted"
    ELSE "None"

\* C24: after post, a stored TOO has status "Rejected" if and only if its
\* reject reason is not "None", and otherwise has status "Requested"; the
\* reason recorded is that of the first failing check in the order future
\* (Other), older than 48 hours (Too old), inside the SAA (In SAA),
\* Earth-occulted or below the minimum probability (Earth occulted).
C24_StatusFollowsFirstReason ==
    too.status = "posted" =>
        \A item \in Stored :
            /\ item.reason = FirstFailing
            /\ item.too_status = (IF item.reason = "None" THEN "Requested"
                                  ELSE "Rejected")

C29_DumpWindow ==
    too.status = "posted" =>
        /\ too.o.end - too.o.begin = too.o.exposure
        /\ too.o.offset = 0 => 2 * too.o.trigger_time = too.o.begin + too.o.end
        /\ too.o.offset = DefaultOffset =>
              2 * (too.o.trigger_time + 50) = too.o.begin + too.o.end

\* C22: after the owner deletes a posted TOO, a get of the same id still
\* succeeds and returns the request with status "Deleted" (the request is
\* marked deleted, not removed).
C22_DeletedStillFetched ==
    (too.status \in {"got", "notfound"} /\ too.after = "deleted") =>
        /\ too.status = "got"
        /\ too.returned = TRUE
        /\ too.o[too.schema.status] = "Deleted"

\* The last call was a put on an id the table held, made by the user the
\* stored request belongs to (or by another user).
PutOnExisting(byowner) ==
    /\ too.status = "put"
    /\ \E item \in get_item(too.before, too.o.id) :
          (item.username = too.user) = byowner

\* C23: after put is called by the owner on an existing TOO with a changed
\* field (status set to "Approved"), put succeeds and a subsequent get of
\* the same id returns the request with the new value: the table holds the
\* request with the new status.
C23_PutStoresChange ==
    (PutOnExisting(TRUE) /\ too.o.status = "Approved") =>
        /\ too.http = NoHTTP
        /\ too.returned = TRUE
        /\ \E item \in get_item(too.table, too.o.id) :
              item.too_status = "Approved"

\* C27: put on an existing TOO by a user who is not its owner fails with
\* HTTP 401 and leaves the stored TOO unchanged; put on an id that does not
\* exist fails with HTTP 404 and creates nothing.
C27_PutRefusals ==
    /\ PutOnExisting(FALSE) => (too.http.code = 401 /\ too.table = too.before)
    /\ (too.status = "put" /\ get_item(too.before, too.o.id) = {})
          => (too.http.code = 404 /\ too.table = too.before)

\* --------------------------------------------- BurstCube TOO request lists

\* How many requests the table of a list query holds at most.
MaxStored == 3

\* The trigger times of the stored requests: with the default exposure and
\* offset their dump windows are [t - 150, t + 50].
ListTriggers == { 1000 * k : k \in 1..MaxStored }

\* The instant at which the stored requests were posted.
ListNow == 1000 * MaxStored + HourSeconds

\* The request post() stores for a trigger, posted outside the SAA.
StoredTOO(schema, trigger_time) ==
    BurstCubeTOOModel(model_dump(schema,
        Compiled(Warned(check_constraints(
            Windowed(BurstCubeTOO(Owner, Unset, trigger_time, DefaultOffset, NoVal)),
            ListNow, FALSE, 0)), ListNow)))

\* The instants list queries are made with.
ListTimes == { 900, 1000, 1100, 1500 }

\* The limits list queries are made with; NoVal stands for None.
Limits == { NoVal, 0, 1, 2 }

\* BurstCubeTOORequests.__init__: the filters of a query; NoVal and "" stand
\* for None.
ListQuery(begin, end, limit, trigger_time, trigger_mission) ==
    [ begin |-> begin, end |-> end, limit |-> limit, trigger_time |-> trigger_time,
      trigger_mission |-> trigger_mission ]

\* BurstCubeTOORequestsGetSchema: begin and end are both set or both not
\* set, and end is not before begin.
ListQueryValid(q) ==
    /\ (q.begin = NoVal) = (q.end = NoVal)
    /\ q.begin <= q.end

\* Key("begin").lte(trigger_time) & Key("end").gte(trigger_time)
CoversTrigger(item, q) == item.begin <= q.trigger_time /\ item.end >= q.trigger_time

\* Key("begin").between(begin, end) | Key("end").between(begin, end)
InRange(item, q) ==
    \/ item.begin >= q.begin /\ item.begin <= q.end
    \/ item.end >= q.begin /\ item.end <= q.end

\* table.scan(FilterExpression=f): the conjunction of the filters that are
\* given; table.scan() without filters.
Scan(table, q) ==
    { item \in table :
        /\ q.trigger_time # NoVal => CoversTrigger(item, q)
        /\ (q.begin # NoVal /\ q.end # NoVal) => InRange(item, q)
        /\ q.trigger_mission # "" => item.trigger_mission = q.trigger_mission }

\* The fields of BurstCubeTOOSchema without a default.
RequiredFields == { "sub", "begin", "exposure" }

\* BurstCubeTOOSchema.model_validate(too) succeeds.
Validates(item) == RequiredFields \subseteq DOMAIN item

\* entries.sort(key=lambda x: x.trigger_time, reverse=True)
RECURSIVE SortedNewestFirst(_)
SortedNewestFirst(items) ==
    IF items = {} THEN << >>
    ELSE LET newest == CHOOSE i \in items :
                           \A j \in items : j.trigger_time <= i.trigger_time
         IN  <<newest>> \o SortedNewestFirst(items \ {newest})

\* entries[: self.limit] for a limit of None or at least 0.
Limited(entries, limit) ==
    IF limit = NoVal THEN entries ELSE PySlice(entries, 0, Min(limit, Len(entries)))

\* BurstCubeTOORequests.get for a valid, authorised query: the scan, the
\* conversion of the items (a ValidationError if one of them fails), sort
\* and limit.
RequestsGet(q) ==
    /\ too.status \in {"stored", "listed", "ValidationError"}
    /\ ListQueryValid(q)
    /\ too' =
          IF \E item \in Scan(too.table, q) : ~Validates(item)
          THEN [too EXCEPT !.status = "ValidationError", !.q = q,
                           !.items = Scan(too.table, q), !.entries = << >>]
          ELSE [too EXCEPT !.status = "listed", !.q = q,
                           !.items = Scan(too.table, q),
                           !.entries = Limited(SortedNewestFirst(Scan(too.table, q)),
                                               q.limit)]
    /\ UNCHANGED <<ephem, vis, saa, pointing, probe, fov, cache>>

ReqInit ==
    /\ ephem = NoEphem
    /\ vis = NewVis({})
    /\ saa = NoSAA
    /\ pointing = NoPointing
    /\ probe = NoProbe
    /\ fov = NoFOV
    /\ cache = NoCache
    /\ \E schema \in ModelSchemas, ts \in SUBSET ListTriggers :
          too = [ status |-> "stored",
                  table |-> { StoredTOO(schema, t) : t \in ts },
                  q |-> ListQuery(NoVal, NoVal, NoVal, NoVal, ""),
                  items |-> {}, entries |-> << >> ]

ReqNext ==
    \E b \in ListTimes \cup {NoVal}, en \in ListTimes \cup {NoVal},
       limit \in Limits, t \in {NoVal, 1000}, m \in {"", "BurstCube", "Swift"} :
        RequestsGet(ListQuery(b, en, limit, t, m))

SpecReq == ReqInit /\ [][ReqNext]_vars

\* The entries a query returned, as a set.
Returned == { too.entries[k] : k \in 1..Len(too.entries) }

\* A list query was made (and ended with or without an exception).
Queried == too.status \in {"listed", "ValidationError"}

\* The stored requests that match the trigger time and mission filters of
\* the query.
Matching ==
    { item \in too.table :
        /\ too.q.trigger_time # NoVal =>
              (item.begin <= too.q.trigger_time /\ too.q.trigger_time <= item.end)
        /\ too.q.trigger_mission # "" => item.trigger_mission = too.q.trigger_mission }

\* The entries are in order of trigger time, newest first.
NewestFirst ==
    \A j \in 1..Len(too.entries), k \in 1..Len(too.entries) :
        j < k => too.entries[j].trigger_time > too.entries[k].trigger_time

\* C25: BurstCubeTOORequests.get returns the requests matching all given
\* filters sorted by trigger_time, newest first; with limit = n it returns
\* exactly the min(n, number of matches) most recent of them; with no
\* filters it returns every stored request. (Queries without a date range.)
C25_NewestFirstLimited ==
    (Queried /\ too.q.begin = NoVal) =>
        /\ too.status = "listed"
        /\ Returned \subseteq Matching
        /\ NewestFirst
        /\ Len(too.entries) = (IF too.q.limit = NoVal THEN Cardinality(Matching)
                               ELSE Min(too.q.limit, Cardinality(Matching)))
        /\ \A e \in Returned, m \in Matching \ Returned :
              m.trigger_time < e.trigger_time

\* The dump window of a stored request overlaps the queried date range.
Overlaps(item) == item.begin <= too.q.end /\ too.q.begin <= item.end

\* C26: when begin and end are given, BurstCubeTOORequests.get returns every
\* stored TOO whose [begin, end] dump window overlaps the queried date
\* range, including a TOO whose window strictly contains the queried range,
\* and returns no TOO whose window does not overlap it. (Queries with a
\* date range only.)
C26_OverlappingWindows ==
    ( /\ Queried
      /\ too.q.begin # NoVal
      /\ too.q.limit = NoVal /\ too.q.trigger_time = NoVal
      /\ too.q.trigger_mission = "" ) =>
        /\ too.status = "listed"
        /\ Returned = { item \in too.table : Overlaps(item) }

\* ------------------------------------------------- visibility: repeated get

\* What a fresh object of the same configuration returns for the
\* parameters object o holds.
Fresh(o) ==
    get(ephem, [NewVis(o.cfg) EXCEPT !.ra = o.ra, !.dec = o.dec,
                                     !.begin = o.begin, !.end = o.end])

\* C30: windows are recomputed on every query: a get() on an object that
\* has answered a query, after its begin, end, ra or dec has been changed,
\* returns exactly the windows a fresh object with the new parameters would
\* return; a get() without changes returns the same windows.
C30_RequeryAsFresh ==
    [][ (vis.status \in {"ok", "IndexError"} /\ vis'.status # "invalid")
            => /\ vis'.status = Fresh(vis').status
               /\ vis'.entries = Fresh(vis').entries ]_vars

====
